---- MODULE Spec2Model ----
(***************************************************************************)
(* Snapshot repository, snapshot index and index repair of the poker       *)
(* leaderboard (lib/api/snapshot-management.ts, app/api/rebuild-index,     *)
(* app/api/debug-snapshots).                                               *)
(*                                                                         *)
(* Strings whose characters the code inspects (dates, player names) are    *)
(* sequences of one-character strings; opaque strings are TLA+ strings.    *)
(* An ISO instant produced by new Date().toISOString() is [iso |-> t].     *)
(* JSON null / a missing result is the record Null.                        *)
(***************************************************************************)
EXTENDS Integers, Sequences, FiniteSets, TLC

(***************************************************************************)
(* Bounds of the model.                                                    *)
(***************************************************************************)
NumRequests == 2
MaxNow == 2
TicksPerDay == 2

(***************************************************************************)
(* Program constants.                                                      *)
(***************************************************************************)
MaxNameLen == 100
MaxHands == 1000000000
MaxSnapshotPlayers == 1000

Requests == 1..NumRequests

Null == [null |-> TRUE]

IsNull(v) == DOMAIN v = {"null"}

(***************************************************************************)
(* Characters and strings.                                                 *)
(***************************************************************************)
DigitChars == <<"0", "1", "2", "3", "4", "5", "6", "7", "8", "9">>

Digits == {DigitChars[i] : i \in 1..10}

Pad2(n) == <<DigitChars[(n \div 10) + 1], DigitChars[(n % 10) + 1]>>

LetterChars == <<"d", "e", "i", "n", "x">>

Letters == {LetterChars[i] : i \in 1..5}

\* Collation rank of a character of a date or a pathname: punctuation sorts
\* before the digits, the digits in numeric order, the letters after them.
CharRank(c) ==
  IF c \in Digits THEN 1 + (CHOOSE i \in 1..10 : DigitChars[i] = c)
  ELSE IF c \in Letters THEN 11 + (CHOOSE i \in 1..5 : LetterChars[i] = c)
  ELSE 0

RECURSIVE LocaleCompare(_, _)
\* a.localeCompare(b): negative, zero or positive.
LocaleCompare(a, b) ==
  IF a = <<>> /\ b = <<>> THEN 0
  ELSE IF a = <<>> THEN -1
  ELSE IF b = <<>> THEN 1
  ELSE IF CharRank(Head(a)) < CharRank(Head(b)) THEN -1
  ELSE IF CharRank(Head(a)) > CharRank(Head(b)) THEN 1
  ELSE LocaleCompare(Tail(a), Tail(b))

RECURSIVE TrimStart(_)
TrimStart(s) ==
  IF s # <<>> /\ Head(s) = " " THEN TrimStart(Tail(s)) ELSE s

RECURSIVE TrimEnd(_)
TrimEnd(s) ==
  IF s # <<>> /\ s[Len(s)] = " " THEN TrimEnd(SubSeq(s, 1, Len(s) - 1)) ELSE s

\* String.prototype.trim
Trim(s) == TrimEnd(TrimStart(s))

(***************************************************************************)
(* Clock.  `now` counts instants; a UTC day has TicksPerDay instants.      *)
(***************************************************************************)
\* new Date(t).toISOString()
ToISOString(t) == [iso |-> t]

\* toISOString().split('T')[0] of the instant t; day 0 is 2025-11-30, so that
\* the modelled days cross a month boundary.
ISODate(t) ==
  LET dom == 30 + (t \div TicksPerDay)
  IN  IF dom <= 30
        THEN <<"2", "0", "2", "5", "-", "1", "1", "-">> \o Pad2(dom)
        ELSE <<"2", "0", "2", "5", "-", "1", "2", "-">> \o Pad2(dom - 30)

(***************************************************************************)
(* Schemas (zod).  A parse returns the parsed value, or Null on failure.   *)
(***************************************************************************)
\* /^\d{4}-\d{2}-\d{2}$/
DatePattern(s) ==
  /\ Len(s) = 10
  /\ \A i \in 1..10 : IF i \in {5, 8} THEN s[i] = "-" ELSE s[i] \in Digits

\* z.string().datetime()
IsDatetime(c) == DOMAIN c = {"iso"}

PlayerRequired == {"rank", "name", "evWon", "evBB100", "won", "hands"}

PlayerChangeFields ==
  {"rankChange", "evWonChange", "evBB100Change", "wonChange", "handsChange"}

PlayerOptional == {"countryCode"} \cup PlayerChangeFields

\* PlayerSchema.safeParse(p).success; numbers of the model are integers, so
\* the int() and finite() checks hold of every number.
PlayerSchemaOk(p) ==
  /\ PlayerRequired \subseteq DOMAIN p
  /\ DOMAIN p \subseteq PlayerRequired \cup PlayerOptional
  /\ p.rank > 0
  /\ Len(p.name) >= 1
  /\ Len(p.name) <= MaxNameLen
  /\ p.hands >= 0
  /\ p.hands <= MaxHands
  /\ "countryCode" \in DOMAIN p => (IsNull(p.countryCode) \/ Len(p.countryCode.code) = 2)

\* PlayerSchema.safeParse(p).data: the name is trimmed after its length check.
PlayerSchemaData(p) == [p EXCEPT !.name = Trim(p.name)]

SnapshotFields == {"date", "webpageTimestamp", "capturedAt", "players"}

\* The snapshot schema without the lower bound on the number of rows.
HistoricalSnapshotSchemaOk_NoMinPlayers(s) ==
  /\ DOMAIN s = SnapshotFields
  /\ DatePattern(s.date)
  /\ s.webpageTimestamp # ""
  /\ IsDatetime(s.capturedAt)
  /\ Len(s.players) <= MaxSnapshotPlayers
  /\ \A i \in 1..Len(s.players) : PlayerSchemaOk(s.players[i])

\* HistoricalSnapshotSchema.safeParse(s).success
HistoricalSnapshotSchemaOk(s) ==
  /\ DOMAIN s = SnapshotFields
  /\ DatePattern(s.date)
  /\ s.webpageTimestamp # ""
  /\ IsDatetime(s.capturedAt)
  /\ Len(s.players) >= 1
  /\ Len(s.players) <= MaxSnapshotPlayers
  /\ \A i \in 1..Len(s.players) : PlayerSchemaOk(s.players[i])

\* safeValidate(HistoricalSnapshotSchema, data, context)
SafeValidateSnapshot(data) ==
  IF HistoricalSnapshotSchemaOk(data)
    THEN [data EXCEPT !.players =
            [i \in 1..Len(data.players) |-> PlayerSchemaData(data.players[i])]]
    ELSE Null

(***************************************************************************)
(* Blob store: a function from pathname to stored body.                    *)
(***************************************************************************)
\* `${SNAPSHOTS_BLOB_PREFIX}${date}.json`
SnapshotPath(date) == [prefix |-> "snapshots/", name |-> date, ext |-> ".json"]

\* 'snapshots/index.json'
IndexPath ==
  [prefix |-> "snapshots/", name |-> <<"i", "n", "d", "e", "x">>, ext |-> ".json"]

\* A put that leaves an object that already exists as it is.
PutBlob_KeepExisting(st, path, body) ==
  IF path \in DOMAIN st THEN st ELSE (path :> body) @@ st

\* put(pathname, body, {addRandomSuffix: false}) that lands: the object at
\* the pathname is replaced as a whole.
PutBlob(st, path, body) == (path :> body) @@ st

\* The body a successful fetch of the blob URL decodes, Null on HTTP 404.
FetchBlob(st, path) == IF path \in DOMAIN st THEN st[path] ELSE Null

\* pathname.match(/snapshots\/(\d{4}-\d{2}-\d{2})\.json$/): the date of a
\* snapshot pathname, Null when the pathname does not match.
SnapshotDateOfPath(path) ==
  IF path.prefix = "snapshots/" /\ path.ext = ".json" /\ DatePattern(path.name)
    THEN path.name
    ELSE Null

\* loadSnapshot(date) when the fetch itself succeeds.
LoadSnapshotFetched(st, date) ==
  LET data == FetchBlob(st, SnapshotPath(date))
  IN  IF IsNull(data) THEN Null ELSE SafeValidateSnapshot(data)

\* The results loadSnapshot(date) can return: the fetched one, or null when
\* the fetch throws, answers a non-404 error or a cached 404.
LoadSnapshotResults(st, date) == {LoadSnapshotFetched(st, date), Null}

EmptyIndex == [snapshots |-> <<>>]

\* loadSnapshotIndex() when the fetch itself succeeds.
LoadSnapshotIndexFetched(st) ==
  LET data == FetchBlob(st, IndexPath)
  IN  IF IsNull(data) THEN EmptyIndex ELSE data

\* The results loadSnapshotIndex() can return: the fetched index, or the
\* empty index when the fetch throws or answers an error.
LoadSnapshotIndexResults(st) == {LoadSnapshotIndexFetched(st), EmptyIndex}

(***************************************************************************)
(* updateSnapshotIndex: find-or-insert, sort by date descending.           *)
(***************************************************************************)
\* Array.prototype.findIndex(s => s.date === date), 1-based; 0 for JS -1.
FindIndexByDate(entries, date) ==
  IF \E i \in 1..Len(entries) : entries[i].date = date
    THEN CHOOSE i \in 1..Len(entries) :
           /\ entries[i].date = date
           /\ \A j \in 1..(i - 1) : entries[j].date # date
    ELSE 0

RECURSIVE InsertByDateDesc(_, _)
\* One step of a stable sort under (a, b) => b.date.localeCompare(a.date).
InsertByDateDesc(sorted, e) ==
  IF sorted = <<>> THEN <<e>>
  ELSE IF LocaleCompare(e.date, Head(sorted).date) <= 0
    THEN <<Head(sorted)>> \o InsertByDateDesc(Tail(sorted), e)
    ELSE <<e>> \o sorted

\* A sort that leaves the entries in the order given.
SortByDateDesc_AsGiven(entries) == entries

RECURSIVE SortByDateDesc(_)
\* entries.sort((a, b) => b.date.localeCompare(a.date))
SortByDateDesc(entries) ==
  IF entries = <<>> THEN <<>>
  ELSE InsertByDateDesc(SortByDateDesc(SubSeq(entries, 1, Len(entries) - 1)),
                        entries[Len(entries)])

\* The index entry of a snapshot.
IndexEntry(snapshot) ==
  [date |-> snapshot.date,
   webpageTimestamp |-> snapshot.webpageTimestamp,
   capturedAt |-> snapshot.capturedAt,
   playerCount |-> Len(snapshot.players)]

\* updateSnapshotIndex without the findIndex branch: the entry is always pushed.
UpdatedIndex_AlwaysPush(index, snapshot) ==
  [index EXCEPT !.snapshots = SortByDateDesc(Append(index.snapshots, IndexEntry(snapshot)))]

\* The index object updateSnapshotIndex(snapshot) puts, given the index it
\* loaded.
UpdatedIndex(index, snapshot) ==
  LET existingIndex == FindIndexByDate(index.snapshots, snapshot.date)
      entries == IF existingIndex >= 1
                   THEN [index.snapshots EXCEPT ![existingIndex] = IndexEntry(snapshot)]
                   ELSE Append(index.snapshots, IndexEntry(snapshot))
  IN  [index EXCEPT !.snapshots = SortByDateDesc(entries)]

(***************************************************************************)
(* updateDailySnapshot: the snapshot it builds from the rows it is given.  *)
(***************************************************************************)
\* The row mapping of updateDailySnapshot with two fields mixed up.
StripPlayer_WonFromEvWon(p) ==
  [rank |-> p.rank, name |-> p.name, evWon |-> p.evWon,
   evBB100 |-> p.evBB100, won |-> p.evWon, hands |-> p.hands]

\* A snapshot row that carries the country field of the enriched rows.
StripPlayer_WithCountry(p) ==
  [rank |-> p.rank, name |-> p.name, evWon |-> p.evWon,
   evBB100 |-> p.evBB100, won |-> p.won, hands |-> p.hands, countryCode |-> Null]

\* players.map(p => ({rank, name, evWon, evBB100, won, hands})).
StripPlayer(p) ==
  [rank |-> p.rank, name |-> p.name, evWon |-> p.evWon,
   evBB100 |-> p.evBB100, won |-> p.won, hands |-> p.hands]

NewSnapshot(todayDate, players, webpageTimestamp, t) ==
  [date |-> todayDate,
   webpageTimestamp |-> webpageTimestamp,
   players |-> [i \in 1..Len(players) |-> StripPlayer(players[i])],
   capturedAt |-> ToISOString(t)]

(***************************************************************************)
(* Inputs.                                                                 *)
(***************************************************************************)
Alice ==
  [rank |-> 1, name |-> <<"A">>, evWon |-> 100, evBB100 |-> 5, won |-> 120, hands |-> 5000]

Bob ==
  [rank |-> 2, name |-> <<"B">>, evWon |-> 40, evBB100 |-> 2, won |-> 35, hands |-> 900]

\* A row that carries optional fields of PlayerData (change indicators), which
\* updateDailySnapshot does not copy.
AliceWithChanges == [rankChange |-> 1, handsChange |-> 200] @@ Alice

\* What a scrape hands to updateDailySnapshot: at least one validated row and
\* a non-empty timestamp (data-fetcher.ts: players.length === 0 throws).
Scrapes ==
  {[players |-> <<Alice>>, webpageTimestamp |-> "T1"],
   [players |-> <<AliceWithChanges, Bob>>, webpageTimestamp |-> "T2"]}

\* Snapshots a direct caller of saveSnapshot passes at instant t: a valid one,
\* a valid one whose player name the schema trims, and invalid ones (no
\* players, a date that is not YYYY-MM-DD, an empty webpageTimestamp).
SnapshotInputs(t) ==
  LET good == NewSnapshot(ISODate(t), <<Alice>>, "T1", t)
  IN  {good,
       NewSnapshot(ISODate(t), <<Alice, Bob>>, "T2", t),
       [good EXCEPT !.players = <<[Alice EXCEPT !.name = <<" ", "A">>]>>],
       [good EXCEPT !.players = <<>>],
       [good EXCEPT !.date = <<"2", "0", "2", "5", "-", "1", "-", "5">>],
       [good EXCEPT !.webpageTimestamp = ""]}

VARIABLES
  now,       \* the clock
  store,     \* the blob store
  pc,        \* per request: where its call stands
  arg,       \* per request: the arguments of updateDailySnapshot
  snap,      \* per request: the snapshot handed to saveSnapshot
  newIndex,  \* per request: the index object updateSnapshotIndex is putting
  logs,      \* per request: console.error entries of the write path of its last call
  outcome,   \* per request: how the promise of its last call settled
  lastPutBy, \* history: per snapshot pathname, the request still running whose
             \* put landed last, and who else was putting when the first landed
  lastIndexPut, \* history: the snapshot of the index put that landed since the
                \* last call of saveSnapshot
  trail,     \* history: the last two calls or runs a specification follows
  rebuild,   \* the run of GET /api/rebuild-index
  diagnose,  \* the run of GET /api/debug-snapshots
  readResult, \* the last call of a read path: which, how its transport went, what it returned
  changes,   \* the last call of calculateChanges: its arguments and what it returned
  deployed,  \* which version of the /api/leaderboard handler the process runs
  minute,    \* Date.now() in minutes, for the age of a cached value
  page,      \* what the source page shows: its rows and its timestamp
  memo,      \* the unstable_cache entry of getCachedLeaderboardData
  cachedData,     \* in-memory version: let cachedData
  cacheTimestamp, \* in-memory version: let cacheTimestamp
  files,     \* in-memory version: the snapshot files under .cache/leaderboard/snapshots
  countryPuts, \* the puts of countries.json that saveCountryMappings has in flight
  response,  \* the last response of /api/leaderboard
  watch,     \* history: what the last /api/leaderboard request met and did
  clock,     \* Date.now() in units of 30 s, as checkRateLimit reads it
  requestLog, \* const requestLog: per client address, the timestamps kept
  admitted,  \* history: per client address, every timestamp checkRateLimit admitted
  listMemo,  \* the unstable_cache entry of getCachedSnapshotList
  retry      \* one call of retryWithBackoff: its arguments, locals and position

reqVars == <<pc, arg, snap, newIndex, logs, outcome>>

hist == <<lastPutBy, lastIndexPut, trail>>

repairVars == <<rebuild, diagnose>>

readVars == <<readResult>>

routeVars ==
  <<deployed, minute, page, memo, cachedData, cacheTimestamp, files, countryPuts, response>>

limiterVars == <<clock, requestLog, admitted>>

webVars == <<limiterVars, listMemo, retry>>

\* No request has reached the rate limiter.
InitWeb ==
  /\ clock = 0
  /\ requestLog = <<>>
  /\ admitted = <<>>
  /\ listMemo = Null
  /\ retry = [pc |-> "idle"]

rest == <<readVars, changes, routeVars, watch, webVars>>

vars == <<now, store, reqVars, hist, repairVars, rest>>

\* A maintenance endpoint that is not running; status is that of its last
\* response, 0 before the first.
RebuildIdle ==
  [pc |-> "idle", queue |-> <<>>, snapshots |-> <<>>, successCount |-> 0,
   errorCount |-> 0, index |-> Null, status |-> 0]

DiagnoseIdle ==
  [pc |-> "idle", actualDates |-> <<>>, indexBlob |-> Null, report |-> Null, status |-> 0]

Init ==
  /\ now = 0
  /\ store = <<>>
  /\ pc = [r \in Requests |-> "idle"]
  /\ arg = [r \in Requests |-> Null]
  /\ snap = [r \in Requests |-> Null]
  /\ newIndex = [r \in Requests |-> Null]
  /\ logs = [r \in Requests |-> {}]
  /\ outcome = [r \in Requests |-> "none"]
  /\ lastPutBy = <<>>
  /\ lastIndexPut = Null
  /\ trail = <<>>
  /\ rebuild = RebuildIdle
  /\ diagnose = DiagnoseIdle
  /\ readResult = Null
  /\ changes = Null
  /\ deployed = "unstable_cache"
  /\ minute = 0
  /\ page = [players |-> <<Alice>>, webpageTimestamp |-> "T1"]
  /\ memo = Null
  /\ cachedData = Null
  /\ cacheTimestamp = 0
  /\ files = <<>>
  /\ countryPuts = {}
  /\ response = Null
  /\ watch = [kind |-> "none"]
  /\ InitWeb

\* The clock advances.
Tick ==
  /\ now < MaxNow
  /\ now' = now + 1
  /\ UNCHANGED <<store, reqVars>>

\* A settling in which every logged error also rejects the promise.
Settle_Rejecting(r, result, logged) ==
  /\ pc' = [pc EXCEPT ![r] = "done"]
  /\ arg' = [arg EXCEPT ![r] = Null]
  /\ snap' = [snap EXCEPT ![r] = Null]
  /\ newIndex' = [newIndex EXCEPT ![r] = Null]
  /\ outcome' = [outcome EXCEPT ![r] = IF logged = {} THEN result ELSE "rejected"]
  /\ logs' = [logs EXCEPT ![r] = @ \cup logged]

\* The call of request r settles: its locals go out of scope.  The caller of
\* updateDailySnapshot (data-fetcher.ts) attaches .catch(console.error), which
\* logs exactly when the promise rejects.
Settle(r, result, logged) ==
  /\ pc' = [pc EXCEPT ![r] = "done"]
  /\ arg' = [arg EXCEPT ![r] = Null]
  /\ snap' = [snap EXCEPT ![r] = Null]
  /\ newIndex' = [newIndex EXCEPT ![r] = Null]
  /\ outcome' = [outcome EXCEPT ![r] = result]
  /\ logs' = [logs EXCEPT ![r] =
               IF result = "rejected"
                 THEN @ \cup logged \cup {[at |-> "caller", error |-> "Error updating daily snapshot"]}
                 ELSE @ \cup logged]

\* How the promise of saveSnapshot settles after an error was thrown inside
\* its try block: the catch logs and returns.
SaveSnapshotAfterThrow == "resolved"

\* saveSnapshot(snapshot) up to its first await: validate, then issue the put.
\* A failed validation throws inside the try block.
SaveSnapshotEnter(r, snapshot) ==
  IF IsNull(SafeValidateSnapshot(snapshot))
    THEN Settle(r, SaveSnapshotAfterThrow,
                {[at |-> "saveSnapshot", error |-> "Invalid snapshot data, refusing to save"]})
    ELSE /\ pc' = [pc EXCEPT ![r] = "putSnapshot"]
         /\ snap' = [snap EXCEPT ![r] = snapshot]
         /\ UNCHANGED <<arg, newIndex, logs, outcome>>

\* updateDailySnapshot(players, webpageTimestamp) is called: it reads today's
\* date and awaits loadSnapshot(todayDate).
CallUpdateDailySnapshot(r, scrape) ==
  /\ pc[r] \in {"idle", "done"}
  /\ pc' = [pc EXCEPT ![r] = "loadSnapshot"]
  /\ arg' = [arg EXCEPT ![r] = [todayDate |-> ISODate(now),
                                players |-> scrape.players,
                                webpageTimestamp |-> scrape.webpageTimestamp]]
  /\ logs' = [logs EXCEPT ![r] = {}]
  /\ outcome' = [outcome EXCEPT ![r] = "pending"]
  /\ UNCHANGED <<now, store, snap, newIndex>>

\* saveSnapshot(snapshot) is called directly.
CallSaveSnapshot(r, snapshot) ==
  /\ pc[r] \in {"idle", "done"}
  /\ \E cleared \in {[logs EXCEPT ![r] = {}]} :
       \/ /\ IsNull(SafeValidateSnapshot(snapshot))
          /\ pc' = [pc EXCEPT ![r] = "done"]
          /\ outcome' = [outcome EXCEPT ![r] = SaveSnapshotAfterThrow]
          /\ logs' = [cleared EXCEPT ![r] =
                       {[at |-> "saveSnapshot", error |-> "Invalid snapshot data, refusing to save"]}]
          /\ UNCHANGED snap
       \/ /\ ~IsNull(SafeValidateSnapshot(snapshot))
          /\ pc' = [pc EXCEPT ![r] = "putSnapshot"]
          /\ snap' = [snap EXCEPT ![r] = snapshot]
          /\ outcome' = [outcome EXCEPT ![r] = "pending"]
          /\ logs' = cleared
  /\ UNCHANGED <<now, store, arg, newIndex>>

\* loadSnapshot(todayDate) returns: an existing snapshot ends the call; on
\* null the new snapshot is built and saveSnapshot entered.
LoadSnapshotReturns(r) ==
  /\ pc[r] = "loadSnapshot"
  /\ \E existingSnapshot \in LoadSnapshotResults(store, arg[r].todayDate) :
       IF IsNull(existingSnapshot)
         THEN SaveSnapshotEnter(r, NewSnapshot(arg[r].todayDate, arg[r].players,
                                               arg[r].webpageTimestamp, now))
         ELSE Settle(r, "resolved", {})
  /\ UNCHANGED <<now, store>>

\* The put of the snapshot object returns: landed, then updateSnapshotIndex
\* starts loading the index; or thrown, which the catch of saveSnapshot logs.
PutSnapshotReturns(r) ==
  /\ pc[r] = "putSnapshot"
  /\ \/ /\ store' = PutBlob(store, SnapshotPath(snap[r].date), SafeValidateSnapshot(snap[r]))
        /\ pc' = [pc EXCEPT ![r] = "loadIndex"]
        /\ UNCHANGED <<arg, snap, newIndex, logs, outcome>>
     \/ /\ Settle(r, SaveSnapshotAfterThrow, {[at |-> "saveSnapshot", error |-> "put failed"]})
        /\ UNCHANGED store
  /\ UNCHANGED now

\* loadSnapshotIndex() returns inside updateSnapshotIndex: the entry is
\* replaced or pushed, the list sorted, and the put of the index issued.
LoadIndexReturns(r) ==
  /\ pc[r] = "loadIndex"
  /\ \E index \in LoadSnapshotIndexResults(store) :
       newIndex' = [newIndex EXCEPT ![r] = UpdatedIndex(index, SafeValidateSnapshot(snap[r]))]
  /\ pc' = [pc EXCEPT ![r] = "putIndex"]
  /\ UNCHANGED <<now, store, arg, snap, logs, outcome>>

\* The put of the index object returns: landed, or thrown, which the catch of
\* updateSnapshotIndex logs.  Either way saveSnapshot resolves.
PutIndexReturns(r) ==
  /\ pc[r] = "putIndex"
  /\ \/ /\ store' = PutBlob(store, IndexPath, newIndex[r])
        /\ Settle(r, "resolved", {})
     \/ /\ Settle(r, "resolved", {[at |-> "updateSnapshotIndex", error |-> "put failed"]})
        /\ UNCHANGED store
  /\ UNCHANGED now

(***************************************************************************)
(* Spec: leaderboard requests, each running updateDailySnapshot, interleaved*)
(* at their awaits.                                                        *)
(***************************************************************************)
Next ==
  \/ Tick /\ UNCHANGED <<hist, repairVars, rest>>
  \/ \E r \in Requests, scrape \in Scrapes :
       CallUpdateDailySnapshot(r, scrape) /\ UNCHANGED <<hist, repairVars, rest>>
  \/ \E r \in Requests : LoadSnapshotReturns(r) /\ UNCHANGED <<hist, repairVars, rest>>
  \/ \E r \in Requests : PutSnapshotReturns(r) /\ UNCHANGED <<hist, repairVars, rest>>
  \/ \E r \in Requests : LoadIndexReturns(r) /\ UNCHANGED <<hist, repairVars, rest>>
  \/ \E r \in Requests : PutIndexReturns(r) /\ UNCHANGED <<hist, repairVars, rest>>

Spec == Init /\ [][Next]_vars

(***************************************************************************)
(* SpecRace: as Spec, recording per snapshot pathname whose put landed last.*)
(***************************************************************************)
\* lastPutBy without what it records of request r, whose call has settled.
Forget(r) ==
  [path \in {q \in DOMAIN lastPutBy : lastPutBy[q].by # r} |->
     [lastPutBy[path] EXCEPT !.racing = @ \ {r}]]

NextRace ==
  \/ Tick /\ UNCHANGED <<hist, repairVars, rest>>
  \/ \E r \in Requests, scrape \in Scrapes :
       CallUpdateDailySnapshot(r, scrape) /\ UNCHANGED <<hist, repairVars, rest>>
  \/ \E r \in Requests : LoadSnapshotReturns(r) /\ UNCHANGED <<hist, repairVars, rest>>
  \/ \E r \in Requests :
       /\ PutSnapshotReturns(r)
       /\ lastPutBy' =
            LET path == SnapshotPath(snap[r].date)
            IN  IF pc'[r] # "loadIndex"
                  THEN Forget(r)
                  ELSE (path :> [by |-> r,
                                 racing |-> IF path \in DOMAIN lastPutBy
                                              THEN lastPutBy[path].racing
                                              ELSE IF path \in DOMAIN store
                                                THEN {}
                                                ELSE {q \in Requests \ {r} :
                                                        /\ pc[q] = "putSnapshot"
                                                        /\ snap[q].date = snap[r].date}])
                       @@ lastPutBy
       /\ UNCHANGED <<lastIndexPut, trail, repairVars, rest>>
  \/ \E r \in Requests : LoadIndexReturns(r) /\ UNCHANGED <<hist, repairVars, rest>>
  \/ \E r \in Requests :
       /\ PutIndexReturns(r)
       /\ lastPutBy' = Forget(r)
       /\ UNCHANGED <<lastIndexPut, trail, repairVars, rest>>

SpecRace == Init /\ [][NextRace]_vars

(***************************************************************************)
(* SpecSeq: one caller calls updateDailySnapshot again and again, each call *)
(* after the previous one has settled; trail keeps its last two calls.      *)
(***************************************************************************)
Caller == 1

LastTwo(s) == IF Len(s) > 2 THEN Tail(s) ELSE s

\* The last call of the trail, updated by the step just taken.
TrailStep(put) ==
  LET n == Len(trail)
  IN  [trail EXCEPT ![n] = [@ EXCEPT !.put = IF put = "none" THEN @ ELSE put,
                                     !.done = pc'[Caller] = "done"]]

NextSeq ==
  \/ Tick /\ UNCHANGED <<hist, repairVars, rest>>
  \/ \E scrape \in Scrapes :
       /\ CallUpdateDailySnapshot(Caller, scrape)
       /\ trail' = LastTwo(Append(trail,
                      [date |-> ISODate(now),
                       players |-> scrape.players,
                       fresh |-> SnapshotPath(ISODate(now)) \notin DOMAIN store,
                       put |-> "none",
                       done |-> FALSE]))
       /\ UNCHANGED <<lastPutBy, lastIndexPut, repairVars, rest>>
  \/ /\ LoadSnapshotReturns(Caller)
     /\ trail' = TrailStep("none")
     /\ UNCHANGED <<lastPutBy, lastIndexPut, repairVars, rest>>
  \/ /\ PutSnapshotReturns(Caller)
     /\ trail' = TrailStep(IF pc'[Caller] = "loadIndex" THEN "landed" ELSE "failed")
     /\ UNCHANGED <<lastPutBy, lastIndexPut, repairVars, rest>>
  \/ /\ LoadIndexReturns(Caller)
     /\ trail' = TrailStep("none")
     /\ UNCHANGED <<lastPutBy, lastIndexPut, repairVars, rest>>
  \/ /\ PutIndexReturns(Caller)
     /\ trail' = TrailStep("none")
     /\ UNCHANGED <<lastPutBy, lastIndexPut, repairVars, rest>>

SpecSeq == Init /\ [][NextSeq]_vars

\* The step in which the put of the index object by request r lands.
IndexPutLands(r) ==
  /\ pc[r] = "putIndex"
  /\ pc'[r] = "done"
  /\ logs'[r] = logs[r]

(***************************************************************************)
(* SpecSave: saveSnapshot is called directly with any snapshot of          *)
(* SnapshotInputs.                                                         *)
(***************************************************************************)
NextSave ==
  \/ Tick /\ UNCHANGED <<hist, repairVars, rest>>
  \/ \E r \in Requests, snapshot \in SnapshotInputs(now) :
       /\ CallSaveSnapshot(r, snapshot)
       /\ lastIndexPut' = Null
       /\ UNCHANGED <<lastPutBy, trail, repairVars, rest>>
  \/ \E r \in Requests : PutSnapshotReturns(r) /\ UNCHANGED <<hist, repairVars, rest>>
  \/ \E r \in Requests : LoadIndexReturns(r) /\ UNCHANGED <<hist, repairVars, rest>>
  \/ \E r \in Requests :
       /\ PutIndexReturns(r)
       /\ lastIndexPut' =
            IF IndexPutLands(r)
              THEN [snapshot |-> snap[r],
                    replaced |-> FindIndexByDate(LoadSnapshotIndexFetched(store).snapshots,
                                                 snap[r].date) # 0]
              ELSE lastIndexPut
       /\ UNCHANGED <<lastPutBy, trail, repairVars, rest>>

SpecSave == Init /\ [][NextSave]_vars
(***************************************************************************)
(* Index repair: GET /api/rebuild-index and GET /api/debug-snapshots.       *)
(***************************************************************************)
\* pathname.endsWith('index.json')
EndsWithIndexJson(path) ==
  /\ path.ext = ".json"
  /\ Len(path.name) >= 5
  /\ SubSeq(path.name, Len(path.name) - 4, Len(path.name)) = <<"i", "n", "d", "e", "x">>

\* blob.pathname.endsWith('.json') && !blob.pathname.endsWith('index.json')
IsSnapshotBlob(path) == path.ext = ".json" /\ ~EndsWithIndexJson(path)

RECURSIVE SortPaths(_)
SortPaths(paths) ==
  IF paths = {} THEN <<>>
  ELSE LET first == CHOOSE p \in paths :
                      \A q \in paths : LocaleCompare(p.name, q.name) <= 0
       IN  <<first>> \o SortPaths(paths \ {first})

\* list({prefix: 'snapshots/'}), all pages: the pathnames in pathname order.
ListBlobs(st) == SortPaths({p \in DOMAIN st : p.prefix = "snapshots/"})

RECURSIVE InsertString(_, _)
InsertString(sorted, s) ==
  IF sorted = <<>> THEN <<s>>
  ELSE IF LocaleCompare(s, Head(sorted)) < 0 THEN <<s>> \o sorted
  ELSE <<Head(sorted)>> \o InsertString(Tail(sorted), s)

RECURSIVE SortStrings(_)
\* Array.prototype.sort() of strings
SortStrings(strings) ==
  IF strings = <<>> THEN <<>>
  ELSE InsertString(SortStrings(Tail(strings)), Head(strings))

\* Array.prototype.reverse()
Reverse(s) == [i \in 1..Len(s) |-> s[Len(s) + 1 - i]]

\* The list of entries a rebuild starts from.
RebuildInitialEntries_FromIndex(st) == LoadSnapshotIndexFetched(st).snapshots

\* const snapshots: any[] = []
RebuildInitialEntries(st) == <<>>

\* The index object a rebuild puts.
RebuildIndexObject(snapshots, t) ==
  [snapshots |-> SortByDateDesc(snapshots),
   lastUpdated |-> ToISOString(t),
   count |-> Len(snapshots)]

\* A rebuild whose put also removes the objects that are no valid snapshots.
RebuildWrite_PruneInvalid(st, index) ==
  LET kept == {q \in DOMAIN st : ~IsSnapshotBlob(q) \/ ~IsNull(SafeValidateSnapshot(st[q]))}
  IN  (IndexPath :> index) @@ [q \in kept |-> st[q]]

\* put('snapshots/index.json', JSON.stringify(index), {allowOverwrite: true})
RebuildWrite(st, index) == PutBlob(st, IndexPath, index)

\* The response of a rebuild that has ended.
RebuildEnded(rb, status) == [RebuildIdle EXCEPT !.pc = "done", !.status = status]

\* After the loop over the snapshot blobs: 400 when nothing valid was
\* found, else the index is sorted, built and its put issued.
RebuildAfterLoop(rb) ==
  IF Len(rb.snapshots) = 0
    THEN RebuildEnded(rb, 400)
    ELSE [rb EXCEPT !.pc = "put", !.index = RebuildIndexObject(rb.snapshots, now)]

\* GET /api/rebuild-index is called and its list() returns or throws.
RebuildListReturns ==
  /\ rebuild.pc \in {"idle", "done"}
  /\ \/ LET rb == [RebuildIdle EXCEPT !.pc = "fetch",
                                      !.queue = SelectSeq(ListBlobs(store), IsSnapshotBlob),
                                      !.snapshots = RebuildInitialEntries(store)]
        IN  rebuild' = IF rb.queue = <<>> THEN RebuildAfterLoop(rb) ELSE rb
     \/ rebuild' = RebuildEnded(RebuildIdle, 500)
  /\ UNCHANGED <<now, store, reqVars, diagnose>>

\* The fetch of the next snapshot blob returns: a body, or nothing when the
\* response is not ok or the fetch throws.  Invalid and unread bodies count
\* as errors.
RebuildFetchReturns ==
  /\ rebuild.pc = "fetch"
  /\ \E data \in {FetchBlob(store, Head(rebuild.queue)), Null} :
       LET validatedSnapshot == IF IsNull(data) THEN Null ELSE SafeValidateSnapshot(data)
           rb == IF IsNull(validatedSnapshot)
                   THEN [rebuild EXCEPT !.queue = Tail(@), !.errorCount = @ + 1]
                   ELSE [rebuild EXCEPT !.queue = Tail(@),
                                        !.snapshots = Append(@, IndexEntry(validatedSnapshot)),
                                        !.successCount = @ + 1]
       IN  rebuild' = IF rb.queue = <<>> THEN RebuildAfterLoop(rb) ELSE rb
  /\ UNCHANGED <<now, store, reqVars, diagnose>>

\* The put of the rebuilt index returns: landed (200) or thrown (500).
RebuildPutReturns ==
  /\ rebuild.pc = "put"
  /\ \/ /\ store' = RebuildWrite(store, rebuild.index)
        /\ rebuild' = RebuildEnded(rebuild, 200)
     \/ /\ rebuild' = RebuildEnded(rebuild, 500)
        /\ UNCHANGED store
  /\ UNCHANGED <<now, reqVars, diagnose>>

\* The report of the debug endpoint, from the dates of the listed snapshot
\* pathnames and the index it read (Null when no index blob was listed).
DiagnoseReport(actualDates, indexData) ==
  LET indexDates == IF IsNull(indexData) \/ "snapshots" \notin DOMAIN indexData
                      THEN <<>>
                      ELSE [i \in 1..Len(indexData.snapshots) |-> indexData.snapshots[i].date]
      InIndex(d) == \E i \in 1..Len(indexDates) : indexDates[i] = d
      InStorage(d) == \E i \in 1..Len(actualDates) : actualDates[i] = d
      NotInIndex(d) == ~InIndex(d)
      NotInStorage(d) == ~InStorage(d)
  IN  [missingInIndex |-> SelectSeq(actualDates, NotInIndex),
       missingInStorage |-> SelectSeq(indexDates, NotInStorage)]

\* GET /api/debug-snapshots is called and its list() returns or throws; with
\* no index blob listed the report is made at once.
DiagnoseListReturns ==
  /\ diagnose.pc \in {"idle", "done"}
  /\ \/ LET allBlobs == ListBlobs(store)
            snapshotBlobs == SelectSeq(allBlobs, IsSnapshotBlob)
            HasDate(path) == ~IsNull(SnapshotDateOfPath(path))
            dated == SelectSeq(snapshotBlobs, HasDate)
            actualDates == Reverse(SortStrings([i \in 1..Len(dated) |->
                                                  SnapshotDateOfPath(dated[i])]))
            indexBlobs == SelectSeq(allBlobs, EndsWithIndexJson)
        IN  diagnose' =
              IF indexBlobs = <<>>
                THEN [DiagnoseIdle EXCEPT !.pc = "done", !.status = 200,
                                          !.report = DiagnoseReport(actualDates, Null)]
                ELSE [DiagnoseIdle EXCEPT !.pc = "fetchIndex",
                                          !.actualDates = actualDates,
                                          !.indexBlob = Head(indexBlobs)]
     \/ diagnose' = [DiagnoseIdle EXCEPT !.pc = "done", !.status = 500]
  /\ UNCHANGED <<now, store, reqVars, rebuild>>

\* The fetch of the index blob returns its body, or throws (500).
DiagnoseFetchIndexReturns ==
  /\ diagnose.pc = "fetchIndex"
  /\ \/ /\ diagnose.indexBlob \in DOMAIN store
        /\ diagnose' = [DiagnoseIdle EXCEPT
                          !.pc = "done", !.status = 200,
                          !.report = DiagnoseReport(diagnose.actualDates,
                                                    FetchBlob(store, diagnose.indexBlob))]
     \/ diagnose' = [DiagnoseIdle EXCEPT !.pc = "done", !.status = 500]
  /\ UNCHANGED <<now, store, reqVars, rebuild>>

(***************************************************************************)
(* What else happens to the store: objects are deleted by hand, and the    *)
(* migration script uploads local snapshot files.                          *)
(***************************************************************************)
\* The local snapshot files of the migration script: name and parsed JSON.
\* The script checks only that a file parses, so a file need not be a valid
\* snapshot.
LocalFiles ==
  {[name |-> <<"2", "0", "2", "5", "-", "1", "1", "-", "2", "9">>,
    body |-> NewSnapshot(<<"2", "0", "2", "5", "-", "1", "1", "-", "2", "9">>,
                         <<Alice, Bob>>, "T0", 0)],
   [name |-> <<"2", "0", "2", "5", "-", "1", "1", "-", "2", "8">>,
    body |-> [date |-> <<"2", "0", "2", "5", "-", "1", "1", "-", "2", "8">>,
              webpageTimestamp |-> "T0",
              players |-> <<Alice>>]]}

\* A snapshot object is deleted from the store by hand.
ManualDelete(path) ==
  /\ path \in DOMAIN store
  /\ IsSnapshotBlob(path)
  /\ store' = [q \in DOMAIN store \ {path} |-> store[q]]
  /\ UNCHANGED <<now, reqVars, repairVars, rest>>

\* The migration script uploads a local file whose date it did not list.
MigrateUpload(file) ==
  /\ SnapshotPath(file.name) \notin DOMAIN store
  /\ store' = PutBlob(store, SnapshotPath(file.name), file.body)
  /\ UNCHANGED <<now, reqVars, repairVars, rest>>

(***************************************************************************)
(* SpecRepair: one caller of updateDailySnapshot, deletions and uploads,   *)
(* and an operator who runs the maintenance endpoints one at a time.       *)
(* trail keeps the operator's last two runs, which endpoint, whether it    *)
(* has ended and whether it wrote the index, for as long as no store       *)
(* operation of a run has failed and nothing else has written to the store *)
(* since the first of them began; otherwise trail is empty.                *)
(***************************************************************************)
NewRun(op) == LastTwo(Append(trail, [op |-> op, done |-> FALSE, wrote |-> FALSE]))

NoRun == rebuild.pc \in {"idle", "done"} /\ diagnose.pc \in {"idle", "done"}

\* trail after a step of the run that is under way.
Followed(runs, faulty, done, wrote) ==
  IF runs = <<>> \/ runs[Len(runs)].done \/ faulty
    THEN <<>>
    ELSE [runs EXCEPT ![Len(runs)] = [@ EXCEPT !.done = done, !.wrote = wrote]]

\* The fetch of the rebuild that has just returned brought no body although
\* the object is stored.
RebuildFetchFailed ==
  /\ Head(rebuild.queue) \in DOMAIN store
  /\ ~IsNull(SafeValidateSnapshot(store[Head(rebuild.queue)]))
  /\ \/ rebuild'.status = 400
     \/ rebuild'.pc \in {"fetch", "put"} /\ rebuild'.snapshots = rebuild.snapshots

\* The caller of this specification always brings the same scrape.
RepairScrapes == {s \in Scrapes : Len(s.players) = 2}

NextRepair ==
  \/ \E scrape \in RepairScrapes :
       CallUpdateDailySnapshot(Caller, scrape) /\ UNCHANGED <<hist, repairVars, rest>>
  \/ LoadSnapshotReturns(Caller) /\ UNCHANGED <<hist, repairVars, rest>>
  \/ /\ PutSnapshotReturns(Caller)
     /\ trail' = IF pc'[Caller] = "loadIndex" THEN <<>> ELSE trail
     /\ UNCHANGED <<lastPutBy, lastIndexPut, repairVars, rest>>
  \/ LoadIndexReturns(Caller) /\ UNCHANGED <<hist, repairVars, rest>>
  \/ /\ PutIndexReturns(Caller)
     /\ trail' = IF IndexPutLands(Caller) THEN <<>> ELSE trail
     /\ UNCHANGED <<lastPutBy, lastIndexPut, repairVars, rest>>
  \/ \E path \in DOMAIN store :
       /\ ManualDelete(path)
       /\ trail' = <<>>
       /\ UNCHANGED <<lastPutBy, lastIndexPut, rest>>
  \/ \E file \in LocalFiles :
       /\ MigrateUpload(file)
       /\ trail' = <<>>
       /\ UNCHANGED <<lastPutBy, lastIndexPut, rest>>
  \/ /\ NoRun
     /\ RebuildListReturns
     /\ trail' = Followed(NewRun("rebuild"), rebuild'.status = 500,
                          rebuild'.pc = "done", FALSE)
     /\ UNCHANGED <<lastPutBy, lastIndexPut, rest>>
  \/ /\ RebuildFetchReturns
     /\ trail' = Followed(trail, RebuildFetchFailed, rebuild'.pc = "done", FALSE)
     /\ UNCHANGED <<lastPutBy, lastIndexPut, rest>>
  \/ /\ RebuildPutReturns
     /\ trail' = Followed(trail, rebuild'.status = 500, TRUE, TRUE)
     /\ UNCHANGED <<lastPutBy, lastIndexPut, rest>>
  \/ /\ NoRun
     /\ DiagnoseListReturns
     /\ trail' = Followed(NewRun("diagnose"), diagnose'.status = 500,
                          diagnose'.pc = "done", FALSE)
     /\ UNCHANGED <<lastPutBy, lastIndexPut, rest>>
  \/ /\ DiagnoseFetchIndexReturns
     /\ trail' = Followed(trail, diagnose'.status = 500, TRUE, FALSE)
     /\ UNCHANGED <<lastPutBy, lastIndexPut, rest>>

SpecRepair == Init /\ [][NextRepair]_vars

(***************************************************************************)
(* The read paths: loadSnapshot, loadSnapshotIndex, getAvailableSnapshots   *)
(* and loadCountryMappings, each called on a store whose objects may be      *)
(* missing, not JSON, or JSON of another shape.                             *)
(***************************************************************************)

\* A stored body that is not JSON: response.json() throws on it.
Undecodable == [undecodable |-> TRUE]

\* COUNTRIES_BLOB_PATH = 'countries.json'
CountriesPath ==
  [prefix |-> "", name |-> <<"c", "o", "u", "n", "t", "r", "i", "e", "s">>, ext |-> ".json"]

\* How the fetch of a blob URL, or the list call, goes: answered (200, or 404
\* when the object is missing), answered with another error status, or thrown.
Transports == {"ok", "status500", "throws"}

\* loadSnapshot(date): null on 404, on any other error status, on a thrown
\* fetch, on a body that is not JSON, and on a body the schema rejects.
LoadSnapshot(st, date, transport) ==
  IF transport # "ok" THEN Null
  ELSE IF FetchBlob(st, SnapshotPath(date)) = Undecodable THEN Null
  ELSE LoadSnapshotFetched(st, date)

\* loadSnapshotIndex(): the empty index on 404, on any other error status
\* and on a thrown fetch or json(); otherwise the decoded body, as it is.
LoadSnapshotIndex(st, transport) ==
  IF transport # "ok" THEN EmptyIndex
  ELSE IF FetchBlob(st, IndexPath) = Undecodable THEN EmptyIndex
  ELSE LoadSnapshotIndexFetched(st)

\* getAvailableSnapshots(): the dates of the listed pathnames that match the
\* snapshot pattern, sorted and reversed; [] when list() throws.
GetAvailableSnapshots(st, transport) ==
  IF transport # "ok" THEN <<>>
  ELSE LET blobs == ListBlobs(st)
           dated == SelectSeq(blobs, LAMBDA p : ~IsNull(SnapshotDateOfPath(p)))
       IN  Reverse(SortStrings([i \in 1..Len(dated) |-> SnapshotDateOfPath(dated[i])]))

\* A decoded countries.json: an object from player names to a country code or
\* null, held in the field entries; {} is the object without entries.
EmptyMappings == [entries |-> <<>>]

\* loadCountryMappings(): {} on 404, on any other error status and on a
\* thrown fetch or json(); otherwise the decoded body, as it is.
LoadCountryMappings(st, transport) ==
  IF transport # "ok" THEN EmptyMappings
  ELSE IF CountriesPath \notin DOMAIN st THEN EmptyMappings
  ELSE IF st[CountriesPath] = Undecodable THEN EmptyMappings
  ELSE st[CountriesPath]

\* Bodies found at snapshots/{date}.json: a snapshot, a JSON object the schema
\* rejects (no players), and text that is not JSON.
StoredSnapshotBodies ==
  {NewSnapshot(ISODate(0), <<Alice>>, "T1", 0),
   NewSnapshot(ISODate(0), <<>>, "T1", 0),
   Undecodable}

\* The index a half-finished or hand-made upload leaves: JSON, but without
\* the snapshots list.
CorruptIndex == [count |-> 0]

StoredIndexBodies ==
  {[snapshots |-> <<IndexEntry(NewSnapshot(ISODate(0), <<Alice>>, "T1", 0))>>],
   CorruptIndex,
   Undecodable}

\* countries.json that is JSON but maps a name to a number.
CorruptCountries == [entries |-> (Bob.name :> 5)]

\* countries.json maps a player name to a country code, or to null.
StoredCountryBodies ==
  {[entries |-> (Alice.name :> [code |-> <<"U", "S">>])], CorruptCountries, Undecodable}

\* With(stores, path, bodies): each of the stores with nothing new at path, or
\* with one of the bodies.
With(stores, path, bodies) ==
  stores \cup {PutBlob(st, path, body) : st \in stores, body \in bodies}

ReadStores ==
  With(With(With({<<>>}, SnapshotPath(ISODate(0)), StoredSnapshotBodies),
            IndexPath, StoredIndexBodies),
       CountriesPath, StoredCountryBodies)

InitRead ==
  /\ now = 0
  /\ store \in ReadStores
  /\ pc = [r \in Requests |-> "idle"]
  /\ arg = [r \in Requests |-> Null]
  /\ snap = [r \in Requests |-> Null]
  /\ newIndex = [r \in Requests |-> Null]
  /\ logs = [r \in Requests |-> {}]
  /\ outcome = [r \in Requests |-> "none"]
  /\ lastPutBy = <<>>
  /\ lastIndexPut = Null
  /\ trail = <<>>
  /\ rebuild = RebuildIdle
  /\ diagnose = DiagnoseIdle
  /\ readResult = Null
  /\ changes = Null
  /\ deployed = "unstable_cache"
  /\ minute = 0
  /\ page = [players |-> <<Alice>>, webpageTimestamp |-> "T1"]
  /\ memo = Null
  /\ cachedData = Null
  /\ cacheTimestamp = 0
  /\ files = <<>>
  /\ countryPuts = {}
  /\ response = Null
  /\ watch = [kind |-> "none"]
  /\ InitWeb

CallLoadSnapshot(date, transport) ==
  /\ readResult' = [op |-> "loadSnapshot", transport |-> transport,
                    value |-> LoadSnapshot(store, date, transport)]
  /\ UNCHANGED <<now, store, reqVars, repairVars>>

CallLoadSnapshotIndex(transport) ==
  /\ readResult' = [op |-> "loadSnapshotIndex", transport |-> transport,
                    value |-> LoadSnapshotIndex(store, transport)]
  /\ UNCHANGED <<now, store, reqVars, repairVars>>

CallGetAvailableSnapshots(transport) ==
  /\ readResult' = [op |-> "getAvailableSnapshots", transport |-> transport,
                    value |-> GetAvailableSnapshots(store, transport)]
  /\ UNCHANGED <<now, store, reqVars, repairVars>>

CallLoadCountryMappings(transport) ==
  /\ readResult' = [op |-> "loadCountryMappings", transport |-> transport,
                    value |-> LoadCountryMappings(store, transport)]
  /\ UNCHANGED <<now, store, reqVars, repairVars>>

NextRead ==
  \/ \E transport \in Transports :
       CallLoadSnapshot(ISODate(0), transport) /\ UNCHANGED <<hist, webVars, changes, routeVars, watch>>
  \/ \E transport \in Transports : CallLoadSnapshotIndex(transport) /\ UNCHANGED <<hist, webVars, changes, routeVars, watch>>
  \/ \E transport \in Transports : CallGetAvailableSnapshots(transport) /\ UNCHANGED <<hist, webVars, changes, routeVars, watch>>
  \/ \E transport \in Transports : CallLoadCountryMappings(transport) /\ UNCHANGED <<hist, webVars, changes, routeVars, watch>>

SpecRead == InitRead /\ [][NextRead]_vars

(***************************************************************************)
(* calculateChanges, called as getCachedLeaderboardData calls it: on the    *)
(* scraped rows, with the previous day's snapshot or null.                  *)
(***************************************************************************)

\* The five change fields with the rank change computed the other way round.
ChangeFields_RankReversed(currentPlayer, previousPlayer) ==
  [rankChange |-> currentPlayer.rank - previousPlayer.rank,
   evWonChange |-> currentPlayer.evWon - previousPlayer.evWon,
   evBB100Change |-> currentPlayer.evBB100 - previousPlayer.evBB100,
   wonChange |-> currentPlayer.won - previousPlayer.won,
   handsChange |-> currentPlayer.hands - previousPlayer.hands]

\* The change fields of the object literal calculateChanges returns for a
\* player found in the previous snapshot.
ChangeFields(currentPlayer, previousPlayer) ==
  [rankChange |-> previousPlayer.rank - currentPlayer.rank,
   evWonChange |-> currentPlayer.evWon - previousPlayer.evWon,
   evBB100Change |-> currentPlayer.evBB100 - previousPlayer.evBB100,
   wonChange |-> currentPlayer.won - previousPlayer.won,
   handsChange |-> currentPlayer.hands - previousPlayer.hands]

\* previousMap: name -> player, a later player of the same name replacing an
\* earlier one (Map.set).
PreviousMap(players) ==
  [name \in {players[i].name : i \in 1..Len(players)} |->
     LET last == CHOOSE i \in 1..Len(players) :
                   /\ players[i].name = name
                   /\ \A j \in 1..Len(players) : players[j].name = name => j <= i
     IN  players[last]]

\* A player the previous snapshot does not hold gets zero change fields.
MapPlayer_ZeroForNew(currentPlayer, previousMap) ==
  IF currentPlayer.name \notin DOMAIN previousMap
    THEN ChangeFields(currentPlayer, currentPlayer) @@ currentPlayer
    ELSE ChangeFields(currentPlayer, previousMap[currentPlayer.name]) @@ currentPlayer

\* The callback of currentPlayers.map: the player as it is when the previous
\* snapshot does not hold its name, otherwise {...currentPlayer, changes}.
MapPlayer(currentPlayer, previousMap) ==
  IF currentPlayer.name \notin DOMAIN previousMap
    THEN currentPlayer
    ELSE ChangeFields(currentPlayer, previousMap[currentPlayer.name]) @@ currentPlayer

\* Without a previous snapshot every player gets zero change fields.
CalculateChanges_ZeroWithoutPrevious(currentPlayers, previousSnapshot) ==
  IF IsNull(previousSnapshot)
    THEN [i \in 1..Len(currentPlayers) |->
            ChangeFields(currentPlayers[i], currentPlayers[i]) @@ currentPlayers[i]]
    ELSE [i \in 1..Len(currentPlayers) |->
            MapPlayer(currentPlayers[i], PreviousMap(previousSnapshot.players))]

\* calculateChanges(currentPlayers, previousSnapshot)
CalculateChanges(currentPlayers, previousSnapshot) ==
  IF IsNull(previousSnapshot)
    THEN currentPlayers
    ELSE [i \in 1..Len(currentPlayers) |->
            MapPlayer(currentPlayers[i], PreviousMap(previousSnapshot.players))]

\* Rows of today and of the day before: a player who rose from rank 3 to
\* rank 1, and the rows the write path is fed.
Carol ==
  [rank |-> 1, name |-> <<"C">>, evWon |-> 25, evBB100 |-> 4, won |-> 20, hands |-> 150]

CarolBefore ==
  [rank |-> 3, name |-> <<"C">>, evWon |-> 10, evBB100 |-> 6, won |-> 30, hands |-> 100]

\* mergeCountryCodes: a row that carries a country code.
BobWithCountry == [countryCode |-> [code |-> <<"D", "E">>]] @@ Bob

\* The longest list of rows of a call.
MaxPlayers == 2

ListsOf(rows) == UNION {[1..n -> rows] : n \in 0..MaxPlayers}

\* playersWithCountries: the scraped rows, none of which carries a change field.
CurrentPlayerLists == ListsOf({Alice, BobWithCountry, Carol})

\* What loadPreviousDaySnapshot returns: null, or a stored snapshot.
PreviousSnapshots ==
  {Null} \cup {NewSnapshot(ISODate(0), players, "T1", 0) :
                 players \in ListsOf({Alice, Bob, CarolBefore, Carol}) \ {<<>>}}

CallCalculateChanges(currentPlayers, previousSnapshot) ==
  /\ changes' = [currentPlayers |-> currentPlayers,
                 previousSnapshot |-> previousSnapshot,
                 result |-> CalculateChanges(currentPlayers, previousSnapshot)]
  /\ UNCHANGED <<now, store, reqVars, repairVars>>

NextChanges ==
  \E currentPlayers \in CurrentPlayerLists, previousSnapshot \in PreviousSnapshots :
    CallCalculateChanges(currentPlayers, previousSnapshot) /\ UNCHANGED <<hist, webVars, readVars, routeVars, watch>>

SpecChanges == Init /\ [][NextChanges]_vars

(***************************************************************************)
(* GET /api/leaderboard: the handler over unstable_cache, and the handler   *)
(* that keeps its cache in module variables.  The day clock stands still    *)
(* here; minute counts the minutes of Date.now() within it.                 *)
(***************************************************************************)

\* CACHE_DURATION = 60 * 5 seconds, in minutes.
CACHE_DURATION == 5

\* CACHE_TTL = 5 * 60 * 1000 milliseconds, in minutes.
CACHE_TTL == 5

\* The last minute of the clock.
MaxMinute == 5

\* players: z.array(PlayerSchema).max(1000) of CachedDataSchema
MaxCachedPlayers == 1000

Versions == {"unstable_cache", "in-memory"}

\* The tags of the unstable_cache entry of getCachedLeaderboardData.
LeaderboardTags == {"leaderboard-data"}

\* tags: ['snapshot-list']
SnapshotListTags == {"snapshot-list"}

\* The pages the source shows, one after the other.
Pages ==
  {[players |-> <<Alice>>, webpageTimestamp |-> "T1"],
   [players |-> <<Alice, Bob>>, webpageTimestamp |-> "T2"]}

\* CachedDataSchema.safeParse(d).success
CachedDataSchemaOk(d) ==
  /\ DOMAIN d = {"players", "lastUpdated", "webpageTimestamp"}
  /\ Len(d.players) >= 1
  /\ Len(d.players) <= MaxCachedPlayers
  /\ \A i \in 1..Len(d.players) : PlayerSchemaOk(d.players[i])
  /\ IsDatetime(d.lastUpdated)
  /\ d.webpageTimestamp # ""

\* mergeCountryCodes(players), given what loadCountryMappings returned: the
\* mappings with every unknown name added as null, whether that added any,
\* and the rows with countryCode set.
MergeCountryCodes(players, countryMappings) ==
  LET known == DOMAIN countryMappings.entries
      names == {players[i].name : i \in 1..Len(players)}
      merged == [name \in known \cup names |->
                   IF name \in known THEN countryMappings.entries[name] ELSE Null]
  IN  [mappings |-> [entries |-> merged],
       needsUpdate |-> ~(names \subseteq known),
       players |-> [i \in 1..Len(players) |->
                      [countryCode |-> merged[players[i].name]] @@ players[i]]]

\* loadPreviousDaySnapshot(): the snapshot of the most recent listed date
\* that is not today.
LoadPreviousDaySnapshot(st, today, listed, fetched) ==
  LET dates == GetAvailableSnapshots(st, listed)
      others == SelectSeq(dates, LAMBDA d : d # today)
  IN  IF others = <<>> THEN Null ELSE LoadSnapshot(st, Head(others), fetched)

\* The function unstable_cache wraps, from the rows on: the value it returns,
\* Null when it throws.  scrape is Null when the fetch of the page failed,
\* timed out, or brought no valid row.
Assemble(scrape, countryMappings, previousSnapshot, t) ==
  IF IsNull(scrape) THEN Null
  ELSE LET data == [players |-> CalculateChanges(
                                  MergeCountryCodes(scrape.players, countryMappings).players,
                                  previousSnapshot),
                    lastUpdated |-> ToISOString(t),
                    webpageTimestamp |-> scrape.webpageTimestamp]
       IN  IF CachedDataSchemaOk(data) THEN data ELSE Null

\* The null of fetchWebpageTimestamp(): no timestamp, falsy like ''.
NoTimestamp == ""

\* How the cache treats an entry older than its revalidation period: the
\* call waits for the new value, or gets the old one while the function runs
\* in the background and ends before or after the request does.
Revalidations == {"blocking", "background", "background-late"}

\* revalidate: CACHE_DURATION
IsStale(entry, m) == m - entry.storedAt >= CACHE_DURATION

\* A cache that keeps nothing: every call runs the wrapped function.
UnstableCache_AlwaysRuns(entry, m, computed, mode, pending) ==
  LET new == IF IsNull(computed) THEN entry ELSE [data |-> computed, storedAt |-> m]
  IN  [value |-> computed, entry |-> new, final |-> new, ran |-> 1]

\* A cache that runs the function and keeps nothing of what it returned.
UnstableCache_NeverStores(entry, m, computed, mode, pending) ==
  [value |-> computed, entry |-> entry, final |-> entry,
   ran |-> IF IsNull(entry) \/ IsStale(entry, m) THEN 1 ELSE 0]

\* A cache that drops its entry when the wrapped function throws.
UnstableCache_ClearsOnThrow(entry, m, computed, mode, pending) ==
  LET new == IF IsNull(computed) THEN Null ELSE [data |-> computed, storedAt |-> m]
  IN  IF IsNull(entry) \/ IsStale(entry, m)
        THEN [value |-> computed, entry |-> new, final |-> new, ran |-> 1]
        ELSE [value |-> entry.data, entry |-> entry, final |-> entry, ran |-> 0]

\* One call of getCachedLeaderboardData() at minute m: the value returned
\* (Null: thrown), the entry later calls of the same request find, the entry
\* left when the request is over, and how often the wrapped function ran.
\* computed is what the function returns if it runs; pending tells that a
\* background run of this request is under way.
UnstableCache(entry, m, computed, mode, pending) ==
  LET new == IF IsNull(computed) THEN entry ELSE [data |-> computed, storedAt |-> m]
  IN  IF IsNull(entry)
        THEN [value |-> computed, entry |-> new, final |-> new, ran |-> 1]
      ELSE IF ~IsStale(entry, m)
        THEN [value |-> entry.data, entry |-> entry, final |-> entry, ran |-> 0]
      ELSE IF mode = "blocking"
        THEN [value |-> computed, entry |-> new, final |-> new, ran |-> 1]
      ELSE IF pending
        THEN [value |-> entry.data, entry |-> entry, final |-> entry, ran |-> 0]
      ELSE IF mode = "background"
        THEN [value |-> entry.data, entry |-> new, final |-> new, ran |-> 1]
      ELSE [value |-> entry.data, entry |-> entry, final |-> new, ran |-> 1]

\* The body of a 200 response of the handler over unstable_cache.
ResponseData(data, previousSnapshot) ==
  [players |-> data.players,
   lastUpdated |-> data.lastUpdated,
   webpageTimestamp |-> data.webpageTimestamp,
   hasPreviousDayData |-> ~IsNull(previousSnapshot),
   previousDayDate |-> IF IsNull(previousSnapshot) THEN Null ELSE previousSnapshot.date,
   isHistorical |-> FALSE]

\* LeaderboardResponseSchema.safeParse(body).success
LeaderboardResponseSchemaOk(body) ==
  /\ DOMAIN body = {"players", "lastUpdated", "webpageTimestamp", "hasPreviousDayData",
                    "previousDayDate", "isHistorical"}
  /\ Len(body.players) >= 1
  /\ Len(body.players) <= MaxCachedPlayers
  /\ \A i \in 1..Len(body.players) : PlayerSchemaOk(body.players[i])
  /\ IsDatetime(body.lastUpdated)
  /\ body.webpageTimestamp # ""
  /\ body.hasPreviousDayData \in BOOLEAN
  /\ IsNull(body.previousDayDate) \/ DatePattern(body.previousDayDate)

ErrorResponse == [status |-> 500, body |-> [error |-> "Failed to fetch leaderboard data"]]

\* GET of leaderboard/route.ts past the rate limit: what it answers, the
\* cache entry it leaves, and how often the wrapped function ran.  probe is
\* what fetchWebpageTimestamp returns, computed1 and computed2 what the
\* wrapped function returns on its first and second run.
LeaderboardGET(entry, m, probe, computed1, computed2, mode, previousSnapshot) ==
  LET first == UnstableCache(entry, m, computed1, mode, FALSE)
      changed == /\ ~IsNull(first.value)
                 /\ probe # NoTimestamp
                 /\ probe # first.value.webpageTimestamp
      again == IsNull(first.value) \/ changed
      late == /\ mode = "background-late"
              /\ ~IsNull(entry)
              /\ IsStale(entry, m)
      second == UnstableCache(first.entry, m, computed2, mode, late)
      got == IF again THEN second.value ELSE first.value
      final == IF again /\ ~late THEN second.final ELSE first.final
      ran == IF again THEN first.ran + second.ran ELSE first.ran
  IN  [response |->
         IF IsNull(got) \/ ~LeaderboardResponseSchemaOk(ResponseData(got, previousSnapshot))
           THEN ErrorResponse
           ELSE [status |-> 200,
                 body |-> ResponseData(got, previousSnapshot),
                 xCache |-> IF again THEN "MISS"
                            ELSE IF probe = NoTimestamp THEN "HIT-NO-TIMESTAMP-CHECK" ELSE "HIT"],
       entry |-> final,
       ran |-> ran,
       got |-> got,
       ran1 |-> first.ran = 1,
       ran2 |-> again /\ second.ran = 1,
       assembled |-> IF first.ran = 1 /\ ~IsNull(computed1) THEN computed1
                     ELSE IF again /\ second.ran = 1 THEN computed2
                     ELSE Null]

\* The handler with the module-level cache: loadSnapshot(date) on the
\* snapshot files, null when the file is missing.
LoadSnapshotFile(fs, date) == IF date \in DOMAIN fs THEN fs[date] ELSE Null

\* fs.readdir(SNAPSHOTS_DIR), the '.json' of each name removed.
RECURSIVE ReadDir(_)
ReadDir(names) ==
  IF names = {} THEN <<>>
  ELSE LET name == CHOOSE n \in names : TRUE
       IN  <<name>> \o ReadDir(names \ {name})

\* The handler with the module-level cache: loadPreviousDaySnapshot() on the
\* snapshot files.
LoadPreviousDayFile(fs, today) ==
  LET dates == Reverse(SortStrings(ReadDir(DOMAIN fs)))
      others == SelectSeq(dates, LAMBDA d : d # today)
  IN  IF others = <<>> THEN Null ELSE LoadSnapshotFile(fs, Head(others))

\* The handler with the module-level cache: the files after
\* updateDailySnapshot(players, webpageTimestamp) wrote what it had to.
UpdateDailySnapshotFile(fs, today, scrape, t) ==
  IF IsNull(LoadSnapshotFile(fs, today))
    THEN (today :> NewSnapshot(today, scrape.players, scrape.webpageTimestamp, t)) @@ fs
    ELSE fs

\* A cached value is served whatever its age when the probe fails.
TimeBasedFallback_NoExpiry(cachedAt, m) == TRUE

\* (now - cacheTimestamp) < CACHE_TTL
TimeBasedFallback(cachedAt, m) == m - cachedAt < CACHE_TTL

\* The body the in-memory handler answers from its cache.
CachedBody(cached) ==
  [players |-> cached.players,
   lastUpdated |-> cached.lastUpdated,
   webpageTimestamp |-> cached.webpageTimestamp]

\* GET of the handler with the module-level cache, past the rate limit: what
\* it answers, the cache it leaves, and how often it fetched the full page.
\* probe is what fetchWebpageTimestamp returns, scrape the rows and timestamp
\* of the full page, Null when the fetch failed or brought no valid row.
InMemoryGET(cached, cachedAt, m, probe, scrape, previousSnapshot, t) ==
  IF ~IsNull(cached) /\ probe # NoTimestamp /\ probe = cached.webpageTimestamp
    THEN [response |-> [status |-> 200, body |-> CachedBody(cached), xCache |-> "HIT"],
          cachedData |-> cached, cacheTimestamp |-> cachedAt, ran |-> 0]
  ELSE IF ~IsNull(cached) /\ probe = NoTimestamp /\ TimeBasedFallback(cachedAt, m)
    THEN [response |-> [status |-> 200, body |-> CachedBody(cached), xCache |-> "HIT"],
          cachedData |-> cached, cacheTimestamp |-> cachedAt, ran |-> 0]
  ELSE IF ~IsNull(scrape)
    THEN LET new == [players |-> CalculateChanges(scrape.players, previousSnapshot),
                     lastUpdated |-> ToISOString(t),
                     webpageTimestamp |-> scrape.webpageTimestamp]
         IN  [response |->
                [status |-> 200,
                 body |-> [hasPreviousDayData |-> ~IsNull(previousSnapshot),
                           previousDayDate |-> IF IsNull(previousSnapshot)
                                                 THEN Null ELSE previousSnapshot.date]
                          @@ CachedBody(new),
                 xCache |-> "MISS"],
              cachedData |-> new, cacheTimestamp |-> m, ran |-> 1]
  ELSE IF ~IsNull(cached)
    THEN [response |->
            [status |-> 200,
             body |-> [warning |-> "Using cached data due to temporary fetch error"]
                      @@ CachedBody(cached),
             xCache |-> "STALE"],
          cachedData |-> cached, cacheTimestamp |-> cachedAt, ran |-> 1]
  ELSE [response |-> ErrorResponse, cachedData |-> cached, cacheTimestamp |-> cachedAt,
        ran |-> 1]

\* A minute passes.
MinutePasses ==
  /\ minute < MaxMinute
  /\ minute' = minute + 1
  /\ UNCHANGED <<now, store, reqVars, repairVars, readVars, changes, deployed, page, memo,
                 cachedData, cacheTimestamp, files, countryPuts, response>>

\* The source publishes new standings.
PageUpdates ==
  /\ page.webpageTimestamp = "T1"
  /\ page' \in {p \in Pages : p.webpageTimestamp = "T2"}
  /\ UNCHANGED <<now, store, reqVars, repairVars, readVars, changes, deployed, minute, memo,
                 cachedData, cacheTimestamp, files, countryPuts, response>>

\* What the page gives a fetch that succeeds or fails: fetchWebpageTimestamp
\* its timestamp or null, the full fetch its rows and timestamp or an error.
ProbeOf(ok) == IF ok THEN page.webpageTimestamp ELSE NoTimestamp

ScrapeOf(ok) == IF ok THEN page ELSE Null

\* A wrapped function that goes on without rows.
NoPlayersScraped_Never(scrape) == FALSE

\* if (players.length === 0) throw: the wrapped function ends before
\* mergeCountryCodes and updateDailySnapshot.
NoPlayersScraped(scrape) == IsNull(scrape)

\* What loadPreviousDaySnapshot() can return: the snapshot it finds, or null
\* when the list or the fetch fails.
PreviousDayResults(st, today) == {LoadPreviousDaySnapshot(st, today, "ok", "ok"), Null}

\* One request of the handler over unstable_cache, as LeaderboardGET gives
\* it, with merged the outcome of mergeCountryCodes in a run of the wrapped
\* function and rows whether a run got its rows.  loaded is what
\* loadPreviousDaySnapshot() returns to the wrapped function,
\* previousSnapshot what it returns to the handler afterwards.
LeaderboardRequest(probeOk, ok1, ok2, mode, mapped, loaded, previousSnapshot) ==
  LET countryMappings == LoadCountryMappings(store, mapped)
      get == LeaderboardGET(memo, minute, ProbeOf(probeOk),
                            Assemble(ScrapeOf(ok1), countryMappings, loaded, now),
                            Assemble(ScrapeOf(ok2), countryMappings, loaded, now),
                            mode, previousSnapshot)
  IN  [merged |-> MergeCountryCodes(page.players, countryMappings),
       rows |-> \/ get.ran1 /\ ~NoPlayersScraped(ScrapeOf(ok1))
                \/ get.ran2 /\ ~NoPlayersScraped(ScrapeOf(ok2))] @@ get

\* GET /api/leaderboard over unstable_cache.  A run of the wrapped function
\* that got its rows has started, without awaiting them, the put of the
\* country mappings when a name was new, and updateDailySnapshot, before it
\* validates what it returns.
GetLeaderboard(r, probeOk, ok1, ok2, mode, mapped, loaded, previousSnapshot) ==
  /\ deployed = "unstable_cache"
  /\ LET req == LeaderboardRequest(probeOk, ok1, ok2, mode, mapped, loaded, previousSnapshot)
     IN  /\ memo' = req.entry
         /\ response' = req.response
         /\ IF ~req.rows
              THEN UNCHANGED <<now, store, reqVars, countryPuts>>
              ELSE /\ CallUpdateDailySnapshot(r, page)
                   /\ countryPuts' = IF req.merged.needsUpdate
                                       THEN countryPuts \cup {req.merged.mappings}
                                       ELSE countryPuts
  /\ UNCHANGED <<repairVars, readVars, changes, deployed, minute, page, cachedData,
                 cacheTimestamp, files>>

\* A put of saveCountryMappings returns: landed, or thrown and logged.
SaveCountryMappingsReturns ==
  /\ \E mappings \in countryPuts :
       /\ countryPuts' = countryPuts \ {mappings}
       /\ \/ store' = PutBlob(store, CountriesPath, mappings)
          \/ UNCHANGED store
  /\ UNCHANGED <<now, reqVars, repairVars, readVars, changes, deployed, minute, page, memo,
                 cachedData, cacheTimestamp, files, response>>

\* One request of the handler with the module-level cache, as InMemoryGET
\* gives it.
InMemoryRequest(probeOk, ok) ==
  InMemoryGET(cachedData, cacheTimestamp, minute, ProbeOf(probeOk), ScrapeOf(ok),
              LoadPreviousDayFile(files, ISODate(now)), now)

\* The outcomes to draw for a fetch, only one when the request cannot make it.
FetchOutcomes(made) == IF made THEN BOOLEAN ELSE {FALSE}

\* The function unstable_cache wraps can run in a request that comes now.
MayRun == IsNull(memo) \/ IsStale(memo, minute)

\* GET /api/leaderboard with the module-level cache.  After a fetch of the
\* rows updateDailySnapshot runs unawaited; its file is written, or not.
GetLeaderboardInMemory(probeOk, ok) ==
  /\ deployed = "in-memory"
  /\ LET req == InMemoryRequest(probeOk, ok)
     IN  /\ cachedData' = req.cachedData
         /\ cacheTimestamp' = req.cacheTimestamp
         /\ response' = req.response
         /\ IF req.response.status = 200 /\ req.response.xCache = "MISS"
              THEN files' \in {files, UpdateDailySnapshotFile(files, ISODate(now), page, now)}
              ELSE UNCHANGED files
  /\ UNCHANGED <<now, store, reqVars, repairVars, readVars, changes, deployed, minute, page,
                 memo, countryPuts>>

\* revalidateTag(tag): an entry that carries the tag is dropped.
RevalidateTag(entry, tags, tag) == IF tag \in tags THEN Null ELSE entry

\* GET /api/revalidate-cache
RevalidateCache ==
  /\ memo' = RevalidateTag(memo, LeaderboardTags, "snapshot-list")
  /\ listMemo' = RevalidateTag(listMemo, SnapshotListTags, "snapshot-list")
  /\ UNCHANGED <<now, store, reqVars, repairVars, readVars, changes, deployed, minute, page,
                 cachedData, cacheTimestamp, files, countryPuts, response>>

\* The process starts with either version of the handler.
InitLeaderboard ==
  /\ now = 0
  /\ store = <<>>
  /\ pc = [r \in Requests |-> "idle"]
  /\ arg = [r \in Requests |-> Null]
  /\ snap = [r \in Requests |-> Null]
  /\ newIndex = [r \in Requests |-> Null]
  /\ logs = [r \in Requests |-> {}]
  /\ outcome = [r \in Requests |-> "none"]
  /\ lastPutBy = <<>>
  /\ lastIndexPut = Null
  /\ trail = <<>>
  /\ rebuild = RebuildIdle
  /\ diagnose = DiagnoseIdle
  /\ readResult = Null
  /\ changes = Null
  /\ deployed \in Versions
  /\ minute = 0
  /\ page \in {p \in Pages : p.webpageTimestamp = "T1"}
  /\ memo = Null
  /\ cachedData = Null
  /\ cacheTimestamp = 0
  /\ files = <<>>
  /\ countryPuts = {}
  /\ response = Null
  /\ watch = [kind |-> "none"]
  /\ InitWeb

\* What a request to /api/leaderboard met and did: whether
\* /api/revalidate-cache was called since the request before, what the probe
\* returned, how often the full page was fetched, and whether no fetch of it
\* brought a value.
Watched(probeOk, ran, failed) ==
  [kind |-> "leaderboard",
   revalidated |-> watch.kind = "revalidate",
   probe |-> ProbeOf(probeOk),
   ran |-> ran,
   failed |-> failed]

NextLeaderboard ==
  \/ MinutePasses /\ UNCHANGED <<hist, webVars, watch>>
  \/ PageUpdates /\ UNCHANGED <<hist, webVars, watch>>
  \/ \E loaded, previousSnapshot \in PreviousDayResults(store, ISODate(now)),
        probeOk \in BOOLEAN, ok1, ok2 \in FetchOutcomes(MayRun),
        mode \in IF MayRun THEN Revalidations ELSE {"blocking"},
        mapped \in IF MayRun THEN {"ok", "throws"} ELSE {"ok"} :
       LET req == LeaderboardRequest(probeOk, ok1, ok2, mode, mapped, loaded, previousSnapshot)
       IN  /\ GetLeaderboard(Caller, probeOk, ok1, ok2, mode, mapped, loaded, previousSnapshot)
           /\ watch' = Watched(probeOk, req.ran, req.ran > 0 /\ IsNull(req.assembled))
           /\ UNCHANGED <<hist, webVars>>
  \/ \E probeOk, ok \in BOOLEAN :
       LET req == InMemoryRequest(probeOk, ok)
       IN  /\ GetLeaderboardInMemory(probeOk, ok)
           /\ watch' = Watched(probeOk, req.ran, req.ran > 0 /\ ~ok)
           /\ UNCHANGED <<hist, webVars>>
  \/ RevalidateCache /\ watch' = [kind |-> "revalidate"] /\ UNCHANGED <<hist, limiterVars, retry>>
  \/ SaveCountryMappingsReturns /\ UNCHANGED <<hist, webVars, watch>>
  \/ LoadSnapshotReturns(Caller) /\ UNCHANGED <<hist, webVars, repairVars, rest>>
  \/ PutSnapshotReturns(Caller) /\ UNCHANGED <<hist, webVars, repairVars, rest>>
  \/ LoadIndexReturns(Caller) /\ UNCHANGED <<hist, webVars, repairVars, rest>>
  \/ PutIndexReturns(Caller) /\ UNCHANGED <<hist, webVars, repairVars, rest>>

SpecLeaderboard == InitLeaderboard /\ [][NextLeaderboard]_vars

(***************************************************************************)
(* The rate limiter in front of GET /api/leaderboard.                      *)
(***************************************************************************)

\* RATE_LIMIT_WINDOW = 60 * 1000 ms, here in units of 30 s
RATE_LIMIT_WINDOW == 2

MAX_REQUESTS_PER_WINDOW == 10

\* The clock of the rate limiter stops here.
MaxClock == 2

\* No more requests than this are admitted in a behaviour.
MaxAdmitted == 12

\* x-forwarded-for || x-real-ip || 'unknown'
Addresses == {"203.0.113.7", "unknown"}

\* requestLog.get(ip) || []
RequestsOf(log, ip) == IF ip \in DOMAIN log THEN log[ip] ELSE <<>>

\* A limiter that keeps one list for all addresses.
CheckRateLimit_OneList(log, ip, t) ==
  LET recentRequests == SelectSeq(RequestsOf(log, "unknown"),
                                  LAMBDA timestamp : t - timestamp < RATE_LIMIT_WINDOW)
  IN  IF Len(recentRequests) >= MAX_REQUESTS_PER_WINDOW
        THEN [allowed |-> FALSE, log |-> log]
        ELSE [allowed |-> TRUE,
              log |-> ("unknown" :> Append(recentRequests, t)) @@ log]

\* A limiter that also records the requests it rejects.
CheckRateLimit_LogsRejected(log, ip, t) ==
  LET recentRequests == SelectSeq(RequestsOf(log, ip),
                                  LAMBDA timestamp : t - timestamp < RATE_LIMIT_WINDOW)
  IN  [allowed |-> Len(recentRequests) < MAX_REQUESTS_PER_WINDOW,
       log |-> (ip :> Append(recentRequests, t)) @@ log]

\* checkRateLimit(ip) at time t: whether the request is allowed, and the log
\* it leaves.
CheckRateLimit(log, ip, t) ==
  LET recentRequests == SelectSeq(RequestsOf(log, ip),
                                  LAMBDA timestamp : t - timestamp < RATE_LIMIT_WINDOW)
  IN  IF Len(recentRequests) >= MAX_REQUESTS_PER_WINDOW
        THEN [allowed |-> FALSE, log |-> log]
        ELSE [allowed |-> TRUE,
              log |-> (ip :> Append(recentRequests, t)) @@ log]

\* The answer to a request over the limit.
TooManyRequests ==
  [status |-> 429,
   body |-> [error |-> "Too many requests. Please try again later."],
   retryAfter |-> "60"]

\* How many requests have been admitted so far.
RECURSIVE AdmittedIn(_, _)
AdmittedIn(log, ips) ==
  IF ips = {} THEN 0
  ELSE LET ip == CHOOSE a \in ips : TRUE
       IN  Len(RequestsOf(log, ip)) + AdmittedIn(log, ips \ {ip})

\* Half a minute passes.
ClockAdvances ==
  /\ clock < MaxClock
  /\ clock' = clock + 1
  /\ UNCHANGED <<requestLog, admitted, listMemo, retry, response>>

\* A request of ip reaches GET /api/leaderboard: the limiter answers it, or
\* lets it through to the rest of the handler.
LeaderboardArrives(ip) ==
  LET check == CheckRateLimit(requestLog, ip, clock)
  IN  /\ check.allowed => AdmittedIn(admitted, Addresses) < MaxAdmitted
      /\ requestLog' = check.log
      /\ admitted' = IF check.allowed
                       THEN (ip :> Append(RequestsOf(admitted, ip), clock)) @@ admitted
                       ELSE admitted
      /\ response' = IF check.allowed THEN Null ELSE TooManyRequests
      /\ UNCHANGED <<clock, listMemo, retry>>

\* The frame of the limiter's steps.
LimiterFrame ==
  UNCHANGED <<now, store, reqVars, hist, repairVars, readVars, changes, deployed, minute,
              page, memo, cachedData, cacheTimestamp, files, countryPuts, watch>>

NextRateLimit ==
  \/ ClockAdvances /\ LimiterFrame
  \/ \E ip \in Addresses : LeaderboardArrives(ip) /\ LimiterFrame

SpecRateLimit == Init /\ [][NextRateLimit]_vars

(***************************************************************************)
(* The history routes: GET /api/history and GET /api/history/[date].       *)
(***************************************************************************)

HistoricalDataFields ==
  {"players", "capturedAt", "webpageTimestamp", "isHistorical", "hasPreviousDayData",
   "previousDayDate"}

\* safeValidate(HistoricalDataResponseSchema, data, context): a strict object,
\* so a key the schema does not name fails the parse; isHistorical and
\* hasPreviousDayData get their defaults, previousDayDate may be absent.
SafeValidateHistoricalData(data) ==
  IF /\ DOMAIN data \subseteq HistoricalDataFields
     /\ {"players", "capturedAt", "webpageTimestamp"} \subseteq DOMAIN data
     /\ Len(data.players) >= 1
     /\ Len(data.players) <= MaxSnapshotPlayers
     /\ \A i \in 1..Len(data.players) : PlayerSchemaOk(data.players[i])
     /\ IsDatetime(data.capturedAt)
     /\ data.webpageTimestamp # ""
     /\ "isHistorical" \in DOMAIN data => data.isHistorical \in BOOLEAN
     /\ "hasPreviousDayData" \in DOMAIN data => data.hasPreviousDayData \in BOOLEAN
     /\ "previousDayDate" \in DOMAIN data =>
          (IsNull(data.previousDayDate) \/ DatePattern(data.previousDayDate))
    THEN [data EXCEPT !.players =
            [i \in 1..Len(data.players) |-> PlayerSchemaData(data.players[i])]]
         @@ [isHistorical |-> TRUE, hasPreviousDayData |-> FALSE]
    ELSE Null

HistoryNotFound == [status |-> 404, body |-> [error |-> "Snapshot not found for this date"]]

\* GET /api/history/[date] over the blob store: list({prefix, limit: 1}), fetch
\* of the blob URL, the two validations.
HistoryDateGET(st, date, listed, fetched) ==
  IF ~DatePattern(date)
    THEN [status |-> 400, body |-> [error |-> "Invalid date format. Expected YYYY-MM-DD"]]
  ELSE IF listed # "ok" THEN HistoryNotFound
  ELSE IF SnapshotPath(date) \notin DOMAIN st THEN HistoryNotFound
  ELSE IF fetched # "ok" THEN HistoryNotFound
  ELSE IF st[SnapshotPath(date)] = Undecodable THEN HistoryNotFound
  ELSE LET validatedSnapshot == SafeValidateSnapshot(st[SnapshotPath(date)])
       IN  IF IsNull(validatedSnapshot)
             THEN [status |-> 500, body |-> [error |-> "Invalid snapshot data"]]
             ELSE LET responseData == [isHistorical |-> TRUE] @@ validatedSnapshot
                      validatedResponse == SafeValidateHistoricalData(responseData)
                  IN  IF IsNull(validatedResponse)
                        THEN [status |-> 500,
                              body |-> [error |-> "Failed to validate response data"]]
                        ELSE [status |-> 200, body |-> validatedResponse]

\* GET /api/history/[date] over the snapshot files: readFile and JSON.parse,
\* no validation.
HistoryDateGETFile(fs, date) ==
  IF ~DatePattern(date)
    THEN [status |-> 400, body |-> [error |-> "Invalid date format. Expected YYYY-MM-DD"]]
  ELSE IF date \notin DOMAIN fs THEN HistoryNotFound
  ELSE [status |-> 200, body |-> [isHistorical |-> TRUE] @@ fs[date]]

\* The dates asked for: the two days of the model, a day of another year, a
\* month 13 with a day 40, and a date without leading zeros.
RequestedDates ==
  {ISODate(0), ISODate(TicksPerDay),
   <<"2", "0", "2", "5", "-", "0", "1", "-", "0", "1">>,
   <<"2", "0", "2", "5", "-", "1", "3", "-", "4", "0">>,
   <<"2", "0", "2", "5", "-", "1", "-", "1">>}

\* A request to GET /api/history/[date].
GetHistoryDate(date, listed, fetched) ==
  /\ response' = IF deployed = "unstable_cache"
                   THEN HistoryDateGET(store, date, listed, fetched)
                   ELSE HistoryDateGETFile(files, date)
  /\ UNCHANGED <<now, store, reqVars, repairVars, readVars, changes, deployed, minute, page,
                 memo, cachedData, cacheTimestamp, files, countryPuts, webVars>>

\* safeValidate(HistoricalSnapshotMetadataSchema, {date, webpageTimestamp, capturedAt})
SafeValidateMetadata(snapshot) ==
  IF /\ {"date", "webpageTimestamp", "capturedAt"} \subseteq DOMAIN snapshot
     /\ DatePattern(snapshot.date)
     /\ snapshot.webpageTimestamp # ""
     /\ IsDatetime(snapshot.capturedAt)
    THEN [date |-> snapshot.date, webpageTimestamp |-> snapshot.webpageTimestamp,
          capturedAt |-> snapshot.capturedAt]
    ELSE Null

\* The function getCachedSnapshotList wraps: the valid entries of the index,
\* in its order, and their number.
SnapshotList(index) ==
  LET validated == [i \in 1..Len(index.snapshots) |-> SafeValidateMetadata(index.snapshots[i])]
      snapshots == SelectSeq(validated, LAMBDA m : ~IsNull(m))
  IN  [snapshots |-> snapshots, count |-> Len(snapshots)]

\* getCachedSnapshotList(): unstable_cache with revalidate: 3600.  A missing
\* entry is computed; an entry older than the hour is computed again, the call
\* waiting for the new value or getting the old one; a younger entry is
\* returned as it is.
CachedSnapshotList(entry, computed, mode) ==
  LET new == [value |-> computed, expired |-> FALSE]
  IN  IF IsNull(entry) THEN [value |-> computed, entry |-> new, ran |-> TRUE]
      ELSE IF ~entry.expired THEN [value |-> entry.value, entry |-> entry, ran |-> FALSE]
      ELSE IF mode = "blocking" THEN [value |-> computed, entry |-> new, ran |-> TRUE]
      ELSE [value |-> entry.value, entry |-> new, ran |-> TRUE]

\* GET /api/history
HistoryGET(entry, index, mode) ==
  LET result == CachedSnapshotList(entry, SnapshotList(index), mode)
  IN  [response |-> [status |-> 200, body |-> result.value, xCache |-> "HIT"],
       entry |-> result.entry,
       ran |-> result.ran]

\* getCachedSnapshotList would run its function in a request that comes now.
ListMayRun == IsNull(listMemo) \/ listMemo.expired

\* A request to GET /api/history.
GetHistory(transport, mode) ==
  /\ deployed = "unstable_cache"
  /\ LET req == HistoryGET(listMemo, LoadSnapshotIndex(store, transport), mode)
     IN  /\ response' = req.response
         /\ listMemo' = req.entry
  /\ UNCHANGED <<now, store, reqVars, repairVars, readVars, changes, deployed, minute,
                 page, memo, cachedData, cacheTimestamp, files, countryPuts, limiterVars, retry>>

\* An hour has passed since the snapshot list was memoized.
SnapshotListExpires ==
  /\ ~IsNull(listMemo)
  /\ ~listMemo.expired
  /\ listMemo' = [listMemo EXCEPT !.expired = TRUE]
  /\ UNCHANGED <<now, store, reqVars, repairVars, readVars, changes, deployed, minute, page,
                 memo, cachedData, cacheTimestamp, files, countryPuts, response, limiterVars,
                 retry>>

\* What a request to GET /api/history met: whether the store answered,
\* whether the response carries the list computed in this request, the index
\* stored and the snapshot objects stored when it came.
HistoryWatched(clean, mode) ==
  [kind |-> "history",
   clean |-> clean,
   computed |-> IsNull(listMemo) \/ (listMemo.expired /\ mode = "blocking"),
   index |-> LoadSnapshotIndexFetched(store),
   stored |-> [q \in {q \in DOMAIN store : ~IsNull(SnapshotDateOfPath(q))} |-> store[q]]]

NextHistory ==
  \/ Tick /\ UNCHANGED <<hist, repairVars, rest>>
  \/ \E date \in RequestedDates :
       \E listed \in IF DatePattern(date) THEN {"ok", "throws"} ELSE {"ok"},
          fetched \in IF SnapshotPath(date) \in DOMAIN store THEN Transports ELSE {"ok"} :
         /\ GetHistoryDate(date, listed, fetched)
         /\ watch' = [kind |-> "history-date", date |-> date,
                      clean |-> listed = "ok" /\ fetched = "ok",
                      stored |-> IF deployed = "unstable_cache"
                                   THEN FetchBlob(store, SnapshotPath(date))
                                   ELSE LoadSnapshotFile(files, date)]
         /\ UNCHANGED hist
  \/ \E transport \in IF ListMayRun THEN Transports ELSE {"ok"},
        mode \in IF ListMayRun THEN {"blocking", "background"} ELSE {"blocking"} :
       /\ GetHistory(transport, mode)
       /\ watch' = HistoryWatched(transport = "ok", mode)
       /\ UNCHANGED hist
  \/ SnapshotListExpires /\ UNCHANGED <<hist, watch>>
  \/ RevalidateCache /\ watch' = [kind |-> "revalidate"] /\ UNCHANGED <<hist, limiterVars, retry>>
  \/ \E probeOk \in BOOLEAN, ok \in BOOLEAN :
       /\ GetLeaderboardInMemory(probeOk, ok)
       /\ watch' = [kind |-> "leaderboard"]
       /\ UNCHANGED <<hist, webVars>>
  \/ /\ deployed = "unstable_cache"
     /\ \E scrape \in RepairScrapes : CallUpdateDailySnapshot(Caller, scrape)
     /\ UNCHANGED <<hist, repairVars, rest>>
  \/ LoadSnapshotReturns(Caller) /\ UNCHANGED <<hist, repairVars, rest>>
  \/ PutSnapshotReturns(Caller) /\ UNCHANGED <<hist, repairVars, rest>>
  \/ LoadIndexReturns(Caller) /\ UNCHANGED <<hist, repairVars, rest>>
  \/ PutIndexReturns(Caller) /\ UNCHANGED <<hist, repairVars, rest>>

SpecHistory == InitLeaderboard /\ [][NextHistory]_vars

(***************************************************************************)
(* GET /api/history in the version that falls back to list() (part_006).   *)
(***************************************************************************)

\* The function getCachedSnapshotList wraps, with the fallback: the valid
\* entries of an index that has entries; otherwise the metadata of the
\* listed snapshot objects that decode and validate, sorted by date
\* descending.  Null when list() throws.
SnapshotListWithFallback(index, st, listed) ==
  IF Len(index.snapshots) > 0 THEN SnapshotList(index)
  ELSE IF listed # "ok" THEN Null
  ELSE LET blobs == SelectSeq(ListBlobs(st), IsSnapshotBlob)
           validated == [i \in 1..Len(blobs) |->
                           IF st[blobs[i]] = Undecodable THEN Null
                           ELSE SafeValidateMetadata(st[blobs[i]])]
           snapshots == SortByDateDesc(SelectSeq(validated, LAMBDA m : ~IsNull(m)))
       IN  [snapshots |-> snapshots, count |-> Len(snapshots)]

\* GET /api/history of that version: 500 with an empty list when the
\* function throws.
HistoryGETWithFallback(entry, index, st, listed, mode) ==
  LET computed == SnapshotListWithFallback(index, st, listed)
      result == CachedSnapshotList(entry, computed, mode)
  IN  IF IsNull(result.value)
        THEN [response |-> [status |-> 500, body |-> [snapshots |-> <<>>, count |-> 0]],
              entry |-> entry]
        ELSE [response |-> [status |-> 200, body |-> result.value, xCache |-> "HIT"],
              entry |-> IF IsNull(computed) THEN entry ELSE result.entry]

GetHistoryWithFallback(transport, listed, mode) ==
  /\ deployed = "unstable_cache"
  /\ LET req == HistoryGETWithFallback(listMemo, LoadSnapshotIndex(store, transport), store,
                                       listed, mode)
     IN  /\ response' = req.response
         /\ listMemo' = req.entry
  /\ UNCHANGED <<now, store, reqVars, repairVars, readVars, changes, deployed, minute,
                 page, memo, cachedData, cacheTimestamp, files, countryPuts, limiterVars, retry>>

NextHistoryFallback ==
  \/ \E transport \in IF ListMayRun THEN Transports ELSE {"ok"},
        listed \in IF ListMayRun THEN {"ok", "throws"} ELSE {"ok"},
        mode \in IF ListMayRun THEN {"blocking", "background"} ELSE {"blocking"} :
       /\ GetHistoryWithFallback(transport, listed, mode)
       /\ watch' = HistoryWatched(transport = "ok" /\ listed = "ok", mode)
       /\ UNCHANGED hist
  \/ SnapshotListExpires /\ UNCHANGED <<hist, watch>>
  \/ /\ deployed = "unstable_cache"
     /\ \E scrape \in RepairScrapes : CallUpdateDailySnapshot(Caller, scrape)
     /\ UNCHANGED <<hist, repairVars, rest>>
  \/ LoadSnapshotReturns(Caller) /\ UNCHANGED <<hist, repairVars, rest>>
  \/ PutSnapshotReturns(Caller) /\ UNCHANGED <<hist, repairVars, rest>>
  \/ LoadIndexReturns(Caller) /\ UNCHANGED <<hist, repairVars, rest>>
  \/ PutIndexReturns(Caller) /\ UNCHANGED <<hist, repairVars, rest>>

SpecHistoryFallback == InitLeaderboard /\ [][NextHistoryFallback]_vars

(***************************************************************************)
(* The country directory under calls of mergeCountryCodes.                 *)
(***************************************************************************)

\* The directory countries.json holds; {} when there is none.
PersistedCountries(st) ==
  IF CountriesPath \in DOMAIN st THEN st[CountriesPath] ELSE EmptyMappings

\* mergeCountryCodes(players) is called: it loads the mappings, adds the
\* names it does not find and, when it added any, starts saveCountryMappings
\* without awaiting it.
CallMergeCountryCodes(players, transport) ==
  /\ LET merged == MergeCountryCodes(players, LoadCountryMappings(store, transport))
     IN  /\ countryPuts' = IF merged.needsUpdate
                             THEN countryPuts \cup {merged.mappings}
                             ELSE countryPuts
         /\ readResult' = [op |-> "mergeCountryCodes", transport |-> transport,
                           value |-> merged.players]
  /\ UNCHANGED <<now, store, reqVars, repairVars, changes, deployed, minute, page, memo,
                 cachedData, cacheTimestamp, files, response, webVars>>

\* The process starts without countries.json, or with one that an operator
\* has filled in for Alice.
InitCountries ==
  /\ InitRead
  /\ store \in {<<>>,
                PutBlob(<<>>, CountriesPath,
                        [entries |-> (Alice.name :> [code |-> <<"U", "S">>])])}

NextCountries ==
  \/ \E players \in ListsOf({Alice, Bob}) \ {<<>>}, transport \in Transports :
       CallMergeCountryCodes(players, transport) /\ UNCHANGED <<hist, watch>>
  \/ SaveCountryMappingsReturns /\ UNCHANGED <<hist, readVars, changes, watch, webVars>>

SpecCountries == InitCountries /\ [][NextCountries]_vars

(***************************************************************************)
(* loadPreviousDaySnapshot over stores that hold snapshots of three days.  *)
(***************************************************************************)

\* The state of a process that starts at instant n over the store st.
InitAt(n, st) ==
  /\ now = n
  /\ store = st
  /\ pc = [r \in Requests |-> "idle"]
  /\ arg = [r \in Requests |-> Null]
  /\ snap = [r \in Requests |-> Null]
  /\ newIndex = [r \in Requests |-> Null]
  /\ logs = [r \in Requests |-> {}]
  /\ outcome = [r \in Requests |-> "none"]
  /\ lastPutBy = <<>>
  /\ lastIndexPut = Null
  /\ trail = <<>>
  /\ rebuild = RebuildIdle
  /\ diagnose = DiagnoseIdle
  /\ readResult = Null
  /\ changes = Null
  /\ deployed = "unstable_cache"
  /\ minute = 0
  /\ page = [players |-> <<Alice>>, webpageTimestamp |-> "T1"]
  /\ memo = Null
  /\ cachedData = Null
  /\ cacheTimestamp = 0
  /\ files = <<>>
  /\ countryPuts = {}
  /\ response = Null
  /\ watch = [kind |-> "none"]
  /\ InitWeb

\* Bodies found at snapshots/{date}.json: a snapshot, a JSON object the schema
\* rejects (no players), and text that is not JSON.
SnapshotBodiesAt(date) ==
  {NewSnapshot(date, <<Alice>>, "T1", 0), NewSnapshot(date, <<>>, "T1", 0), Undecodable}

\* Stores with nothing or one of these bodies at each of three days.
PreviousStores ==
  With(With(With({<<>>}, SnapshotPath(ISODate(0)), SnapshotBodiesAt(ISODate(0))),
            SnapshotPath(ISODate(TicksPerDay)), SnapshotBodiesAt(ISODate(TicksPerDay))),
       SnapshotPath(ISODate(2 * TicksPerDay)), SnapshotBodiesAt(ISODate(2 * TicksPerDay)))

\* The process runs on the last of the three days: no stored date is in the
\* future.
InitPrevious ==
  \E st \in PreviousStores : InitAt(2 * TicksPerDay, st)

CallLoadPreviousDaySnapshot(listed, fetched) ==
  /\ readResult' = [op |-> "loadPreviousDaySnapshot", listed |-> listed, fetched |-> fetched,
                    value |-> LoadPreviousDaySnapshot(store, ISODate(now), listed, fetched)]
  /\ UNCHANGED <<now, store, reqVars, repairVars>>

NextPrevious ==
  \E listed \in {"ok", "throws"}, fetched \in Transports :
    /\ CallLoadPreviousDaySnapshot(listed, fetched)
    /\ UNCHANGED <<hist, changes, routeVars, watch, webVars>>

SpecPrevious == InitPrevious /\ [][NextPrevious]_vars

(***************************************************************************)
(* The wrapped function of getCachedLeaderboardData on the second day,     *)
(* over stores that may hold the snapshot of the first day and a           *)
(* countries.json.                                                         *)
(***************************************************************************)

\* countries.json with a code of three letters, as an edit by hand can leave
\* it.
LongCodeCountries == [entries |-> (Alice.name :> [code |-> <<"U", "S", "A">>])]

AssemblerStores ==
  With(With({<<>>}, SnapshotPath(ISODate(0)), {NewSnapshot(ISODate(0), <<Alice>>, "T1", 0)}),
       CountriesPath,
       {[entries |-> (Alice.name :> [code |-> <<"U", "S">>])], LongCodeCountries})

InitAssembler == \E st \in AssemblerStores : InitAt(TicksPerDay, st)

\* previousSnapshot?.date || null
DateOf(snapshot) == IF IsNull(snapshot) THEN Null ELSE snapshot.date

\* The date of the snapshot the cached value was computed against, as noted
\* when the value entered the cache.
Against(w) == IF "against" \in DOMAIN w THEN w.against ELSE Null

\* What a request to /api/leaderboard with inputs i did: how often the
\* wrapped function ran, whether a fetch of the page it made brought rows,
\* whether a run went on past the check of the rows, whether a run returned
\* a value, whether the step left the store, the pending puts, the
\* updateDailySnapshot call and the cache as they were, and the date of the
\* snapshot against which the change fields were computed, of the value the
\* cache holds afterwards and of the value the request served.
AssemblyWatched(req, i, loaded) ==
  [kind |-> "assembly",
   ran |-> req.ran,
   scraped |-> (req.ran1 /\ i.ok1) \/ (req.ran2 /\ i.ok2),
   rows |-> req.rows,
   assembled |-> ~IsNull(req.assembled),
   untouched |-> /\ store' = store
                 /\ countryPuts' = countryPuts
                 /\ reqVars' = reqVars
                 /\ memo' = memo,
   against |-> IF IsNull(req.entry) THEN Null
               ELSE IF req.entry = memo THEN Against(watch)
               ELSE DateOf(loaded),
   served |-> IF ~IsNull(memo) /\ req.got = memo.data THEN Against(watch)
              ELSE DateOf(loaded)]

\* The inputs of a request that comes now and whose probe answers: the
\* outcomes of the fetches of the page (a second run that follows a run with
\* rows gets rows too), how the cache revalidates, and what the loads of
\* countries.json and of the previous snapshot return, in the wrapped
\* function (which loads them only once it has rows) and in the handler.
AssemblerInputs ==
  {i \in [ok1 : FetchOutcomes(MayRun),
          ok2 : FetchOutcomes(MayRun),
          mode : IF IsNull(memo) \/ ~MayRun THEN {"blocking"} ELSE Revalidations,
          mapped : IF MayRun THEN {"ok", "throws"} ELSE {"ok"},
          loaded : IF MayRun THEN PreviousDayResults(store, ISODate(now)) ELSE {Null},
          previousSnapshot : PreviousDayResults(store, ISODate(now))] :
     /\ i.ok1 => i.ok2
     /\ ~i.ok2 => (i.mapped = "ok" /\ IsNull(i.loaded))}

\* revalidate: CACHE_DURATION passes at once: a fresh entry is stale.
RevalidationPeriodPasses ==
  /\ minute + CACHE_DURATION <= MaxMinute
  /\ minute' = minute + CACHE_DURATION
  /\ UNCHANGED <<now, store, reqVars, repairVars, readVars, changes, deployed, page, memo,
                 cachedData, cacheTimestamp, files, countryPuts, response>>

NextAssembler ==
  \/ RevalidationPeriodPasses /\ UNCHANGED <<hist, webVars, watch>>
  \/ \E i \in AssemblerInputs :
       /\ GetLeaderboard(Caller, TRUE, i.ok1, i.ok2, i.mode, i.mapped, i.loaded,
                         i.previousSnapshot)
       /\ watch' = AssemblyWatched(
                     LeaderboardRequest(TRUE, i.ok1, i.ok2, i.mode, i.mapped, i.loaded,
                                        i.previousSnapshot),
                     i, i.loaded)
       /\ UNCHANGED <<hist, webVars>>
  \/ SaveCountryMappingsReturns /\ UNCHANGED <<hist, webVars, watch>>
  \/ LoadSnapshotReturns(Caller) /\ UNCHANGED <<hist, webVars, repairVars, rest>>
  \/ PutSnapshotReturns(Caller) /\ UNCHANGED <<hist, webVars, repairVars, rest>>
  \/ LoadIndexReturns(Caller) /\ UNCHANGED <<hist, webVars, repairVars, rest>>
  \/ PutIndexReturns(Caller) /\ UNCHANGED <<hist, webVars, repairVars, rest>>

SpecAssembler == InitAssembler /\ [][NextAssembler]_vars

(***************************************************************************)
(* retryWithBackoff (lib/retry.ts).                                        *)
(***************************************************************************)

\* The largest maxRetries and baseDelay a call is given.
MaxMaxRetries == 2

MaxBaseDelay == 2

\* What fn resolves with.
FnValues == {"v1", "v2"}

\* What fn rejects with: Error objects, and a value that is not an Error.
FnErrors == {[message |-> "timeout"], [message |-> "HTTP 503"], [thrown |-> "aborted"]}

\* error instanceof Error
InstanceOfError(e) == "message" \in DOMAIN e

\* error instanceof Error ? error : new Error('Unknown error')
CaughtError(e) == IF InstanceOfError(e) THEN e ELSE [message |-> "Unknown error"]

\* The same delay before every retry.
BackoffDelay_Constant(baseDelay, attempt) == baseDelay

\* baseDelay * Math.pow(2, attempt)
BackoffDelay(baseDelay, attempt) == baseDelay * 2 ^ attempt

\* retryWithBackoff(fn, maxRetries, baseDelay) is called: lastError = null,
\* attempt = 0, and the loop is entered when attempt <= maxRetries.  outcomes
\* lists how each call of fn ended, waits the delays of the timers set.
CallRetryWithBackoff(maxRetries, baseDelay) ==
  /\ retry.pc = "idle"
  /\ retry' = [pc |-> IF 0 <= maxRetries THEN "fn" ELSE "thrown",
               maxRetries |-> maxRetries,
               baseDelay |-> baseDelay,
               attempt |-> 0,
               lastError |-> Null,
               result |-> Null,
               thrown |-> Null,
               waits |-> <<>>,
               outcomes |-> <<>>]

\* await fn() resolves: return.
FnResolves(value) ==
  /\ retry.pc = "fn"
  /\ retry' = [retry EXCEPT !.pc = "returned",
                            !.result = value,
                            !.outcomes = Append(@, [ok |-> TRUE, value |-> value])]

\* await fn() rejects: the catch keeps the error, then breaks out of the loop
\* on the last attempt and throws lastError, or sets the timer.
FnRejects(error) ==
  /\ retry.pc = "fn"
  /\ LET caught == CaughtError(error)
         outcomes == Append(retry.outcomes, [ok |-> FALSE, error |-> error])
     IN  retry' = IF retry.attempt = retry.maxRetries
                    THEN [retry EXCEPT !.pc = "thrown",
                                       !.lastError = caught,
                                       !.thrown = caught,
                                       !.outcomes = outcomes]
                    ELSE [retry EXCEPT !.pc = "timer",
                                       !.lastError = caught,
                                       !.waits = Append(@, BackoffDelay(retry.baseDelay,
                                                                        retry.attempt)),
                                       !.outcomes = outcomes]

\* The timer fires: attempt++, and the loop goes on while attempt <=
\* maxRetries; after the loop, throw lastError.
TimerFires ==
  /\ retry.pc = "timer"
  /\ retry' = IF retry.attempt + 1 <= retry.maxRetries
                THEN [retry EXCEPT !.pc = "fn", !.attempt = @ + 1]
                ELSE [retry EXCEPT !.pc = "thrown", !.attempt = @ + 1,
                                   !.thrown = retry.lastError]

RetryFrame ==
  UNCHANGED <<now, store, reqVars, hist, repairVars, readVars, changes, routeVars, watch,
              limiterVars, listMemo>>

FnSettles ==
  \/ \E value \in FnValues : FnResolves(value) /\ RetryFrame
  \/ \E error \in FnErrors : FnRejects(error) /\ RetryFrame

NextRetry ==
  \/ \E maxRetries \in 0..MaxMaxRetries, baseDelay \in 1..MaxBaseDelay :
       CallRetryWithBackoff(maxRetries, baseDelay) /\ RetryFrame
  \/ FnSettles
  \/ TimerFires /\ RetryFrame

\* A timer that is set fires, and every call of fn settles.
SpecRetry ==
  /\ Init
  /\ [][NextRetry]_vars
  /\ WF_vars(TimerFires /\ RetryFrame)
  /\ WF_vars(FnSettles)

(***************************************************************************)
(* Properties.                                                             *)
(***************************************************************************)
SnapshotPaths(st) == {p \in DOMAIN st : ~IsNull(SnapshotDateOfPath(p))}

C7_IndexEntryAfterSave ==
  [][\A r \in Requests :
       IndexPutLands(r) =>
         LET entries == store'[IndexPath].snapshots
         IN  /\ Cardinality({i \in 1..Len(entries) : entries[i].date = snap[r].date}) = 1
             /\ \E i \in 1..Len(entries) :
                  /\ DOMAIN entries[i] = {"date", "webpageTimestamp", "capturedAt", "playerCount"}
                  /\ entries[i].date = snap[r].date
                  /\ entries[i].webpageTimestamp = snap[r].webpageTimestamp
                  /\ entries[i].capturedAt = snap[r].capturedAt
                  /\ entries[i].playerCount = Len(snap[r].players)]_vars

\* C7 witness: the index put of a saveSnapshot has just landed where the
\* stored index already held an entry for the snapshot's date, and the stored
\* index now holds the entry of the saved snapshot.
C7_Witness ==
  /\ ~IsNull(lastIndexPut)
  /\ lastIndexPut.replaced
  /\ \E i \in 1..Len(store[IndexPath].snapshots) :
       /\ store[IndexPath].snapshots[i].date = lastIndexPut.snapshot.date
       /\ store[IndexPath].snapshots[i].capturedAt = lastIndexPut.snapshot.capturedAt
       /\ store[IndexPath].snapshots[i].playerCount = Len(lastIndexPut.snapshot.players)

\* C8 (as claimed): an index put of saveSnapshot for date D keeps every entry
\* of the stored index whose date is not D.
C8_IndexKeepsOtherDates ==
  [][\A r \in Requests :
       (IndexPutLands(r) /\ IndexPath \in DOMAIN store) =>
         \A i \in 1..Len(store[IndexPath].snapshots) :
           LET e == store[IndexPath].snapshots[i]
           IN  e.date # snap[r].date =>
                 \E j \in 1..Len(store'[IndexPath].snapshots) :
                   store'[IndexPath].snapshots[j] = e]_vars

\* The rows of a stored snapshot are the given rows, field by field.
HoldsPlayers(snapshot, players) ==
  /\ Len(snapshot.players) = Len(players)
  /\ \A i \in 1..Len(players) :
       /\ snapshot.players[i].rank = players[i].rank
       /\ snapshot.players[i].name = players[i].name
       /\ snapshot.players[i].evWon = players[i].evWon
       /\ snapshot.players[i].evBB100 = players[i].evBB100
       /\ snapshot.players[i].won = players[i].won
       /\ snapshot.players[i].hands = players[i].hands

\* The caller's last two calls have both settled, were made on the same day
\* with the same rows, the first of them when no snapshot of that day was
\* stored, and the snapshot put of one of them landed.
TwoCallsSameDay ==
  /\ Len(trail) = 2
  /\ trail[1].done /\ trail[2].done
  /\ trail[1].date = trail[2].date
  /\ trail[1].players = trail[2].players
  /\ trail[1].fresh
  /\ "landed" \in {trail[1].put, trail[2].put}

PlainlyInvalid(s) ==
  \/ Len(s.players) = 0
  \/ Len(s.date) # 10
  \/ s.webpageTimestamp = ""

\* C9: saveSnapshot called with a schema-invalid snapshot performs no put at
\* all: the call ends at once with the store untouched, and no request ever
\* reaches a put, of the snapshot or of the index, with such a snapshot.
C9_InvalidSnapshotNoPut ==
  /\ [][\A r \in Requests : \A s \in SnapshotInputs(now) :
          (CallSaveSnapshot(r, s) /\ PlainlyInvalid(s)) =>
            (store' = store /\ pc'[r] = "done")]_vars
  /\ [](\A r \in Requests :
          pc[r] \in {"putSnapshot", "loadIndex", "putIndex"} => ~PlainlyInvalid(snap[r]))

\* C9 witness: a saveSnapshot call was refused for invalid data while nothing
\* is stored.
C9_Witness ==
  \E r \in Requests :
    /\ pc[r] = "done"
    /\ [at |-> "saveSnapshot", error |-> "Invalid snapshot data, refusing to save"] \in logs[r]
    /\ store = <<>>

\* C10 (as claimed): a saveSnapshot call in which validation or the put
\* failed settles as a rejection, which its caller can observe.
C10_FailureSurfaces ==
  \A r \in Requests :
    (pc[r] = "done" /\ \E l \in logs[r] : l.at = "saveSnapshot") =>
      outcome[r] = "rejected"

\* C4 (as claimed): when a rebuild has run to its end, the debug endpoint has
\* run to its end right after it, no store operation of either failed and
\* nothing else wrote to the store meanwhile, the report lists no date as
\* missing in the index and none as missing in storage.
C4_RebuildThenDiagnoseClean ==
  (/\ Len(trail) = 2
   /\ trail[1].op = "rebuild"
   /\ trail[2].op = "diagnose"
   /\ trail[2].done) =>
    /\ diagnose.report.missingInIndex = <<>>
    /\ diagnose.report.missingInStorage = <<>>

\* The step in which the index put of the second of two rebuilds lands, the
\* first having written the index, with no failed store operation in either
\* and no other write to the store since the first began.
SecondRebuildLands ==
  /\ Len(trail) = 2
  /\ trail[1].op = "rebuild" /\ trail[1].wrote
  /\ trail[2].op = "rebuild" /\ ~trail[2].done
  /\ rebuild.pc = "put"
  /\ rebuild'.status = 200

\* C5: a rebuild run right after a rebuild, on the same stored snapshots,
\* writes the same list of index entries in the same order as the first, and
\* does write whenever the first did.
C5_RebuildIdempotent ==
  /\ [][SecondRebuildLands =>
          /\ store'[IndexPath].snapshots = store[IndexPath].snapshots
          /\ store'[IndexPath].count = store[IndexPath].count]_vars
  /\ []((/\ Len(trail) = 2
         /\ trail[1].op = "rebuild" /\ trail[1].wrote
         /\ trail[2].op = "rebuild" /\ trail[2].done) => trail[2].wrote)

\* C5 witness: two rebuilds in a row have both written the index, which lists
\* two snapshots.
C5_Witness ==
  /\ Len(trail) = 2
  /\ trail[1].op = "rebuild" /\ trail[1].wrote
  /\ trail[2].op = "rebuild" /\ trail[2].wrote
  /\ Len(store[IndexPath].snapshots) = 2

\* C6: no step of a rebuild writes, overwrites or deletes an object other
\* than snapshots/index.json, and no step of the debug endpoint changes the
\* store at all.
C6_RepairLeavesSnapshots ==
  [][/\ rebuild' # rebuild =>
          /\ DOMAIN store' \ {IndexPath} = DOMAIN store \ {IndexPath}
          /\ \A path \in DOMAIN store \ {IndexPath} : store'[path] = store[path]
     /\ diagnose' # diagnose => store' = store]_vars

\* C6 witness: a rebuild has written the index and the debug endpoint has
\* reported, with a valid and an invalid snapshot object in the store.
C6_Witness ==
  /\ rebuild.status = 200
  /\ diagnose.status = 200
  /\ IndexPath \in DOMAIN store
  /\ \E path \in DOMAIN store : IsSnapshotBlob(path) /\ IsNull(SafeValidateSnapshot(store[path]))
  /\ \E path \in DOMAIN store : IsSnapshotBlob(path) /\ ~IsNull(SafeValidateSnapshot(store[path]))

\* C11: once the snapshot put of a saveSnapshot call has landed, the call
\* completes without error whatever becomes of the index update (the index
\* read or the index put may fail), the snapshot object of its date stays
\* stored, and the step that ends the call leaves that object as it is.
C11_IndexFailureKeepsSnapshot ==
  /\ [](\A r \in Requests :
          pc[r] \in {"loadIndex", "putIndex"} => SnapshotPath(snap[r].date) \in DOMAIN store)
  /\ [][\A r \in Requests :
          (pc[r] = "putIndex" /\ pc'[r] = "done") =>
            /\ outcome'[r] = "resolved"
            /\ SnapshotPath(snap[r].date) \in DOMAIN store'
            /\ store'[SnapshotPath(snap[r].date)] = store[SnapshotPath(snap[r].date)]]_vars

\* C11 witness: a call has completed without error after its index put
\* failed; a snapshot object is stored and no index is.
C11_Witness ==
  \E r \in Requests :
    /\ pc[r] = "done"
    /\ outcome[r] = "resolved"
    /\ [at |-> "updateSnapshotIndex", error |-> "put failed"] \in logs[r]
    /\ SnapshotPaths(store) # {}
    /\ IndexPath \notin DOMAIN store

\* The path a read call fetches.
ReadPath(op) ==
  CASE op = "loadSnapshot" -> SnapshotPath(ISODate(0))
    [] op = "loadSnapshotIndex" -> IndexPath
    [] op = "loadCountryMappings" -> CountriesPath

\* The read call met a failure, in the terms of the claim: its transport
\* failed, or the object is missing, is not JSON, or is JSON of a shape the
\* reader's type does not admit.
ReadFailed(st, read) ==
  \/ read.transport # "ok"
  \/ /\ read.op # "getAvailableSnapshots"
     /\ \/ ReadPath(read.op) \notin DOMAIN st
        \/ st[ReadPath(read.op)] = Undecodable
        \/ read.op = "loadSnapshot" /\ IsNull(SafeValidateSnapshot(st[ReadPath(read.op)]))
        \/ read.op = "loadSnapshotIndex" /\ st[IndexPath] = CorruptIndex
        \/ read.op = "loadCountryMappings" /\ st[CountriesPath] = CorruptCountries

\* What each read path returns for "nothing there".
ReadEmpty(op) ==
  CASE op = "loadSnapshot" -> Null
    [] op = "loadSnapshotIndex" -> EmptyIndex
    [] op = "getAvailableSnapshots" -> <<>>
    [] op = "loadCountryMappings" -> EmptyMappings

\* C12 (as claimed): a read call that met a missing object, a transport
\* failure, a body that is not JSON or a schema-invalid body returns the empty
\* value of its read path: null for loadSnapshot, the empty index for
\* loadSnapshotIndex, [] for getAvailableSnapshots, {} for loadCountryMappings.
C12_ReadsDegradeToEmpty ==
  (~IsNull(readResult) /\ ReadFailed(store, readResult)) =>
    readResult.value = ReadEmpty(readResult.op)

\* The player of the previous snapshot that calculateChanges compares with:
\* the last one of that name.
PreviousOf(name, players) ==
  players[CHOOSE i \in 1..Len(players) :
            /\ players[i].name = name
            /\ \A j \in 1..Len(players) : players[j].name = name => j <= i]

NamesOf(players) == {players[i].name : i \in 1..Len(players)}

\* C13: for every current player whose name is that of a player of the
\* previous snapshot, the returned record carries rankChange = previous rank -
\* current rank, evWonChange = current evWon - previous evWon, evBB100Change =
\* current evBB100 - previous evBB100, wonChange = current won - previous won
\* and handsChange = current hands - previous hands, next to the fields of the
\* current record.
C13_ChangesOfMatchedPlayer ==
  (~IsNull(changes) /\ ~IsNull(changes.previousSnapshot)) =>
    \A i \in 1..Len(changes.currentPlayers) :
      LET cur == changes.currentPlayers[i]
          res == changes.result[i]
      IN  cur.name \in NamesOf(changes.previousSnapshot.players) =>
            LET prev == PreviousOf(cur.name, changes.previousSnapshot.players)
            IN  /\ res.rankChange = prev.rank - cur.rank
                /\ res.evWonChange = cur.evWon - prev.evWon
                /\ res.evBB100Change = cur.evBB100 - prev.evBB100
                /\ res.wonChange = cur.won - prev.won
                /\ res.handsChange = cur.hands - prev.hands
                /\ \A f \in DOMAIN cur : res[f] = cur[f]

\* C13 witness: previous {rank 3, evWon 10, hands 100} and current {rank 1,
\* evWon 25, hands 150} gave changes 2, 15 and 50.
C13_Witness ==
  /\ ~IsNull(changes)
  /\ ~IsNull(changes.previousSnapshot)
  /\ changes.currentPlayers = <<Carol>>
  /\ changes.previousSnapshot.players = <<CarolBefore>>
  /\ changes.result[1].rankChange = 2
  /\ changes.result[1].evWonChange = 15
  /\ changes.result[1].handsChange = 50

\* C14: calculateChanges(current, null) returns the current players
\* unchanged: the same records in the same order, none with a change field.
C14_NullPreviousReturnsCurrent ==
  (~IsNull(changes) /\ IsNull(changes.previousSnapshot)) =>
    /\ changes.result = changes.currentPlayers
    /\ \A i \in 1..Len(changes.result) :
         DOMAIN changes.result[i] \cap PlayerChangeFields = {}

\* C14 witness: a call without a previous snapshot returned two rows.
C14_Witness ==
  /\ ~IsNull(changes)
  /\ IsNull(changes.previousSnapshot)
  /\ changes.result = <<Carol, Alice>>

\* C15: for every current player whose name does not occur in the previous
\* snapshot, the returned record is the current record, with none of the five
\* change fields.
C15_NewPlayerHasNoChanges ==
  (~IsNull(changes) /\ ~IsNull(changes.previousSnapshot)) =>
    \A i \in 1..Len(changes.currentPlayers) :
      changes.currentPlayers[i].name \notin NamesOf(changes.previousSnapshot.players) =>
        /\ changes.result[i] = changes.currentPlayers[i]
        /\ DOMAIN changes.result[i] \cap PlayerChangeFields = {}

\* C15 witness: of two current players the previous snapshot held only the
\* second; the first came back without change fields, the second with them.
C15_Witness ==
  /\ ~IsNull(changes)
  /\ ~IsNull(changes.previousSnapshot)
  /\ changes.currentPlayers = <<BobWithCountry, Carol>>
  /\ changes.previousSnapshot.players = <<CarolBefore>>
  /\ changes.result[1] = BobWithCountry
  /\ "rankChange" \in DOMAIN changes.result[2]

\* The inputs of a request to the handler over unstable_cache that comes now.
LeaderboardInputs ==
  [probeOk : BOOLEAN,
   ok1 : FetchOutcomes(MayRun),
   ok2 : FetchOutcomes(MayRun),
   mode : IF MayRun THEN Revalidations ELSE {"blocking"},
   mapped : IF MayRun THEN {"ok", "throws"} ELSE {"ok"},
   loaded : IF MayRun THEN PreviousDayResults(store, ISODate(now)) ELSE {Null},
   previousSnapshot : PreviousDayResults(store, ISODate(now))]

\* The step is a request to the handler over unstable_cache with inputs i.
Requested(i) ==
  GetLeaderboard(Caller, i.probeOk, i.ok1, i.ok2, i.mode, i.mapped, i.loaded,
                 i.previousSnapshot)

\* What that request does.
RequestOf(i) ==
  LeaderboardRequest(i.probeOk, i.ok1, i.ok2, i.mode, i.mapped, i.loaded,
                     i.previousSnapshot)

InMemoryInputs == [probeOk : BOOLEAN, ok : BOOLEAN]

\* The body carries the rows, lastUpdated and webpageTimestamp of data.
Carries(body, data) ==
  /\ body.players = data.players
  /\ body.lastUpdated = data.lastUpdated
  /\ body.webpageTimestamp = data.webpageTimestamp

\* C16 (as claimed): a request that finds a cached value and whose probe
\* returns the cached webpageTimestamp is answered with the cached value and
\* fetches the full page zero times, in either version of the handler and
\* whatever the age of the cached value.
C16_ProbeMatchServesCache ==
  [][/\ (deployed = "unstable_cache" /\ ~IsNull(memo)) =>
          \A i \in LeaderboardInputs :
            (/\ i.probeOk
             /\ page.webpageTimestamp = memo.data.webpageTimestamp
             /\ Requested(i)) =>
              /\ RequestOf(i).ran = 0
              /\ response'.status = 200
              /\ Carries(response'.body, memo.data)
     /\ (deployed = "in-memory" /\ ~IsNull(cachedData)) =>
          \A i \in InMemoryInputs :
            (/\ i.probeOk
             /\ page.webpageTimestamp = cachedData.webpageTimestamp
             /\ GetLeaderboardInMemory(i.probeOk, i.ok)) =>
              /\ InMemoryRequest(i.probeOk, i.ok).ran = 0
              /\ response'.status = 200
              /\ Carries(response'.body, cachedData)]_vars

\* C16 (amended): as C16, where in the handler over unstable_cache the cached
\* value is younger than the revalidation period of the cache (5 minutes);
\* the request then leaves the cache entry as it is and starts no write.
C16_ProbeMatchServesFreshCache ==
  [][/\ (deployed = "unstable_cache" /\ ~IsNull(memo)) =>
          \A i \in LeaderboardInputs :
            (/\ i.probeOk
             /\ page.webpageTimestamp = memo.data.webpageTimestamp
             /\ minute - memo.storedAt < CACHE_DURATION
             /\ Requested(i)) =>
              /\ RequestOf(i).ran = 0
              /\ response'.status = 200
              /\ Carries(response'.body, memo.data)
              /\ UNCHANGED <<memo, pc, countryPuts>>
     /\ (deployed = "in-memory" /\ ~IsNull(cachedData)) =>
          \A i \in InMemoryInputs :
            (/\ i.probeOk
             /\ page.webpageTimestamp = cachedData.webpageTimestamp
             /\ GetLeaderboardInMemory(i.probeOk, i.ok)) =>
              /\ InMemoryRequest(i.probeOk, i.ok).ran = 0
              /\ response'.status = 200
              /\ Carries(response'.body, cachedData)
              /\ UNCHANGED <<cachedData, cacheTimestamp, files>>]_vars

\* C16 witness: the handler over unstable_cache has answered a request from
\* its cache after the probe returned the cached timestamp, without a fetch
\* of the full page.
C16_Witness ==
  /\ deployed = "unstable_cache"
  /\ ~IsNull(memo)
  /\ watch.kind = "leaderboard"
  /\ watch.probe = "T1"
  /\ watch.ran = 0
  /\ response.status = 200
  /\ response.xCache = "HIT"
  /\ Carries(response.body, memo.data)
  /\ memo.data.webpageTimestamp = "T1"

\* C17 (as claimed): a request that finds a cached value with timestamp T1
\* while the probe returns another timestamp T2 fetches the full page exactly
\* once and, no fetch it makes failing, is answered with the value assembled
\* from the fetched rows, not with the cached one.
C17_ProbeMismatchRecomputes ==
  [][/\ (deployed = "unstable_cache" /\ ~IsNull(memo)) =>
          \A i \in LeaderboardInputs :
            (/\ i.probeOk
             /\ page.webpageTimestamp # memo.data.webpageTimestamp
             /\ (MayRun => i.ok1 /\ i.ok2)
             /\ Requested(i)) =>
              /\ RequestOf(i).ran = 1
              /\ response'.status = 200
              /\ response'.body.webpageTimestamp = page.webpageTimestamp
     /\ (deployed = "in-memory" /\ ~IsNull(cachedData)) =>
          \A i \in InMemoryInputs :
            (/\ i.probeOk
             /\ page.webpageTimestamp # cachedData.webpageTimestamp
             /\ i.ok
             /\ GetLeaderboardInMemory(i.probeOk, i.ok)) =>
              /\ InMemoryRequest(i.probeOk, i.ok).ran = 1
              /\ response'.status = 200
              /\ response'.body.webpageTimestamp = page.webpageTimestamp]_vars

\* C18: a request that finds a cached value while the probe fails or times
\* out is answered with the cached value, without a fetch of the full page,
\* when less than 5 minutes have passed since the value was cached, and
\* fetches the full page when 5 minutes or more have passed.
C18_ProbeFailureFallsBackToTTL ==
  [][/\ (deployed = "unstable_cache" /\ ~IsNull(memo)) =>
          \A i \in LeaderboardInputs :
            (~i.probeOk /\ Requested(i)) =>
              IF minute - memo.storedAt < CACHE_DURATION
                THEN /\ RequestOf(i).ran = 0
                     /\ response'.status = 200
                     /\ Carries(response'.body, memo.data)
                     /\ memo' = memo
                ELSE RequestOf(i).ran >= 1
     /\ (deployed = "in-memory" /\ ~IsNull(cachedData)) =>
          \A i \in InMemoryInputs :
            (~i.probeOk /\ GetLeaderboardInMemory(i.probeOk, i.ok)) =>
              IF minute - cacheTimestamp < CACHE_TTL
                THEN /\ InMemoryRequest(i.probeOk, i.ok).ran = 0
                     /\ response'.status = 200
                     /\ Carries(response'.body, cachedData)
                     /\ UNCHANGED <<cachedData, cacheTimestamp>>
                ELSE InMemoryRequest(i.probeOk, i.ok).ran = 1]_vars

\* C18 witness: the in-memory handler, its probe failed and its cached value
\* 5 minutes old or older, has fetched the full page and cached what it got.
C18_Witness ==
  /\ deployed = "in-memory"
  /\ watch.kind = "leaderboard"
  /\ watch.probe = NoTimestamp
  /\ watch.ran = 1
  /\ response.status = 200
  /\ response.xCache = "MISS"
  /\ cacheTimestamp = minute
  /\ minute >= CACHE_TTL
  /\ ISODate(now) \in DOMAIN files

\* C19 (as claimed): a request whose fetches of the full page all fail is
\* answered 200 with the cached payload and a warning when a cached value
\* exists, and 5xx when none exists.
C19_StaleServedOnFailure ==
  [][/\ deployed = "unstable_cache" =>
          \A i \in LeaderboardInputs :
            (/\ RequestOf(i).ran > 0
             /\ IsNull(RequestOf(i).assembled)
             /\ Requested(i)) =>
              IF IsNull(memo)
                THEN response'.status >= 500
                ELSE /\ response'.status = 200
                     /\ Carries(response'.body, memo.data)
                     /\ "warning" \in DOMAIN response'.body
     /\ deployed = "in-memory" =>
          \A i \in InMemoryInputs :
            (/\ InMemoryRequest(i.probeOk, i.ok).ran > 0
             /\ ~i.ok
             /\ GetLeaderboardInMemory(i.probeOk, i.ok)) =>
              IF IsNull(cachedData)
                THEN response'.status >= 500
                ELSE /\ response'.status = 200
                     /\ Carries(response'.body, cachedData)
                     /\ "warning" \in DOMAIN response'.body]_vars

\* C20 (as claimed): the first request to /api/leaderboard after a call of
\* /api/revalidate-cache, a value being cached, fetches the full page, and
\* the call leaves no cached value behind.
C20_RevalidateDropsLeaderboard ==
  [][/\ RevalidateCache => (memo' = Null /\ cachedData' = Null)
     /\ (deployed = "unstable_cache" /\ watch.kind = "revalidate" /\ ~IsNull(memo)) =>
          \A i \in LeaderboardInputs : Requested(i) => RequestOf(i).ran >= 1
     /\ (deployed = "in-memory" /\ watch.kind = "revalidate" /\ ~IsNull(cachedData)) =>
          \A i \in InMemoryInputs :
            GetLeaderboardInMemory(i.probeOk, i.ok) =>
              InMemoryRequest(i.probeOk, i.ok).ran >= 1]_vars

\* The requests of ip admitted at a time in [from, from + RATE_LIMIT_WINDOW).
AdmittedWithin(ip, from) ==
  {k \in DOMAIN RequestsOf(admitted, ip) :
     /\ from <= RequestsOf(admitted, ip)[k]
     /\ RequestsOf(admitted, ip)[k] < from + RATE_LIMIT_WINDOW}

\* The requests of ip admitted within the last 60 seconds.
AdmittedLately(ip) ==
  {k \in DOMAIN RequestsOf(admitted, ip) :
     clock - RequestsOf(admitted, ip)[k] < RATE_LIMIT_WINDOW}

RECURSIVE NumberOf(_)
NumberOf(digits) ==
  IF digits = <<>> THEN 0
  ELSE 10 * NumberOf(SubSeq(digits, 1, Len(digits) - 1))
       + (CHOOSE n \in 0..9 : DigitChars[n + 1] = digits[Len(digits)])

\* s writes a date of the calendar as YYYY-MM-DD.
IsCalendarDate(s) ==
  /\ DatePattern(s)
  /\ LET year == NumberOf(SubSeq(s, 1, 4))
         month == NumberOf(SubSeq(s, 6, 7))
         day == NumberOf(SubSeq(s, 9, 10))
         leap == year % 4 = 0 /\ (year % 100 # 0 \/ year % 400 = 0)
         days == IF month = 2 THEN (IF leap THEN 29 ELSE 28)
                 ELSE IF month \in {4, 6, 9, 11} THEN 30 ELSE 31
     IN  /\ month \in 1..12
         /\ day \in 1..days

\* C22 (as claimed): GET /history/{date} answers 400 for every date that is
\* not a valid YYYY-MM-DD date, 2025-13-40 among them, and 404 for a
\* well-formed date for which no snapshot is stored.
C22_InvalidDate400MissingDate404 ==
  watch.kind = "history-date" =>
    /\ ~IsCalendarDate(watch.date) => response.status = 400
    /\ (IsCalendarDate(watch.date) /\ IsNull(watch.stored)) => response.status = 404

\* C23 (as claimed): for a date with a schema-valid stored snapshot, the
\* store answering, GET /history/{date} answers 200 with exactly players,
\* capturedAt and webpageTimestamp of the stored snapshot, isHistorical: true,
\* hasPreviousDayData: false and previousDayDate: null.
C23_StoredSnapshotServed ==
  (/\ watch.kind = "history-date"
   /\ watch.clean
   /\ HistoricalSnapshotSchemaOk(watch.stored)) =>
    /\ response.status = 200
    /\ response.body = [players |-> watch.stored.players,
                        capturedAt |-> watch.stored.capturedAt,
                        webpageTimestamp |-> watch.stored.webpageTimestamp,
                        isHistorical |-> TRUE,
                        hasPreviousDayData |-> FALSE,
                        previousDayDate |-> Null]

\* C24 (as claimed): GET /history, the store answering, returns the entries
\* of the index stored when the request comes, each reduced to date,
\* webpageTimestamp and capturedAt, in index order, with count their number;
\* so a date saved and indexed before the request is listed.
C24_HistoryListsStoredIndex ==
  (watch.kind = "history" /\ watch.clean) =>
    /\ response.status = 200
    /\ response.body.snapshots =
         [i \in 1..Len(watch.index.snapshots) |->
            [date |-> watch.index.snapshots[i].date,
             webpageTimestamp |-> watch.index.snapshots[i].webpageTimestamp,
             capturedAt |-> watch.index.snapshots[i].capturedAt]]
    /\ response.body.count = Len(response.body.snapshots)

\* C25 (as claimed): under any sequence of mergeCountryCodes calls, calls
\* whose load of the directory fails included, the persisted directory never
\* loses a name it held and never has a known country code replaced by
\* unknown; a call that meets a name not in the directory starts a put that
\* holds the name with null.
C25_DirectoryOnlyGrows ==
  [][/\ \A name \in DOMAIN PersistedCountries(store).entries :
          /\ name \in DOMAIN PersistedCountries(store').entries
          /\ ~IsNull(PersistedCountries(store).entries[name]) =>
               PersistedCountries(store').entries[name] =
                 PersistedCountries(store).entries[name]
     /\ \A players \in ListsOf({Alice, Bob}) \ {<<>>}, transport \in Transports :
          CallMergeCountryCodes(players, transport) =>
            \A i \in 1..Len(players) :
              players[i].name \notin DOMAIN PersistedCountries(store).entries =>
                \E mappings \in countryPuts' :
                  /\ players[i].name \in DOMAIN mappings.entries
                  /\ IsNull(mappings.entries[players[i].name])]_vars

\* The dates before today whose stored snapshot loadSnapshot returns.
LoadableBefore(st, today) ==
  {d \in {ISODate(0), ISODate(TicksPerDay), ISODate(2 * TicksPerDay)} :
     /\ LocaleCompare(d, today) < 0
     /\ ~IsNull(LoadSnapshot(st, d, "ok"))}

\* C28 (as claimed): loadPreviousDaySnapshot, the store answering, returns
\* the snapshot with the greatest date strictly before today among the stored
\* snapshots that can be loaded, and null only when there is none.
C28_PreviousIsLatestLoadableBeforeToday ==
  (/\ "op" \in DOMAIN readResult
   /\ readResult.op = "loadPreviousDaySnapshot"
   /\ readResult.listed = "ok"
   /\ readResult.fetched = "ok") =>
    LET before == LoadableBefore(store, ISODate(now))
    IN  IF before = {}
          THEN IsNull(readResult.value)
          ELSE readResult.value =
                 LoadSnapshot(store,
                              CHOOSE d \in before :
                                \A e \in before : LocaleCompare(e, d) <= 0,
                              "ok")

\* C26 (as claimed): whenever a fetch of the page made by the wrapped
\* function brought at least one row, the assembler returns a leaderboard
\* value, whatever the loads and saves of the country directory and of the
\* snapshots do.
C26_RowsAlwaysAssembled ==
  (watch.kind = "assembly" /\ watch.scraped) => watch.assembled

\* C27: a request in which the wrapped function ran and no fetch of the page
\* brought a row starts no put of the country directory and no
\* updateDailySnapshot call (hence no snapshot or index write), leaves the
\* store as it is, and puts no new value in the cache.
C27_NoRowsNoSideEffects ==
  (watch.kind = "assembly" /\ watch.ran > 0 /\ ~watch.scraped) =>
    /\ watch.untouched
    /\ ~watch.assembled

\* C27 witness: both runs of a request found no row while the cache held a
\* stale value; the request was answered with an error and the value stays.
C27_Witness ==
  /\ watch.kind = "assembly"
  /\ watch.ran = 2
  /\ ~watch.scraped
  /\ watch.untouched
  /\ ~IsNull(memo)
  /\ response.status = 500
  /\ countryPuts = {}

\* null = null, and two dates are equal when they are the same string.
SameDate(a, b) == IF IsNull(a) \/ IsNull(b) THEN IsNull(a) /\ IsNull(b) ELSE a = b

\* C29 (as claimed): in every 200 response hasPreviousDayData and
\* previousDayDate name the snapshot against which the change fields of the
\* served players were computed, also when the players come from the cache.
C29_PreviousDayFieldsMatchAssembly ==
  (watch.kind = "assembly" /\ response.status = 200) =>
    /\ response.body.hasPreviousDayData = ~IsNull(watch.served)
    /\ SameDate(response.body.previousDayDate, watch.served)

\* The snapshots stored for the date.
SnapshotsOf(st, date) == {q \in SnapshotPaths(st) : SnapshotDateOfPath(q) = date}

\* The object stored at path is a snapshot of the date that holds exactly
\* the given rows, each with the six raw fields and nothing else.
StoresRawRows(st, path, date, players) ==
  /\ path \in DOMAIN st
  /\ st[path] # Undecodable
  /\ st[path].date = date
  /\ Len(st[path].players) = Len(players)
  /\ \A k \in 1..Len(players) :
       /\ DOMAIN st[path].players[k] = PlayerRequired
       /\ HoldsPlayers(st[path], players)

Rejections(r) == SelectSeq(r.outcomes, LAMBDA o : ~o.ok)

\* What holds of a call of retryWithBackoff whatever it throws in the end:
\* fn is called at most maxRetries + 1 times and never after a call of it
\* resolved, a result returned is that of the resolved call, the timer set
\* after failed attempt k is of baseDelay * 2^k, and a call that throws has
\* called fn maxRetries + 1 times, all rejected.
RetryLoopHolds(r) ==
  /\ Len(r.outcomes) <= r.maxRetries + 1
  /\ \A k \in 1..Len(r.outcomes) : r.outcomes[k].ok => k = Len(r.outcomes)
  /\ r.pc = "returned" =>
       /\ Len(r.outcomes) >= 1
       /\ r.outcomes[Len(r.outcomes)].ok
       /\ r.result = r.outcomes[Len(r.outcomes)].value
  /\ r.pc \in {"fn", "timer"} => Len(Rejections(r)) = Len(r.outcomes)
  /\ Len(r.waits) = Len(Rejections(r)) - (IF r.pc = "thrown" THEN 1 ELSE 0)
  /\ \A k \in 1..Len(r.waits) : r.waits[k] = r.baseDelay * 2 ^ (k - 1)
  /\ r.pc = "thrown" =>
       /\ Len(r.outcomes) = r.maxRetries + 1
       /\ Len(Rejections(r)) = r.maxRetries + 1

\* A call of retryWithBackoff that has ended makes no further step.
RetryEnded ==
  [][retry.pc \in {"returned", "thrown"} => retry' = retry]_vars

ListsStored(snapshots, stored) ==
  /\ \A i, j \in 1..Len(snapshots) :
       i < j => LocaleCompare(snapshots[i].date, snapshots[j].date) > 0
  /\ {snapshots[i] : i \in 1..Len(snapshots)} =
       {[date |-> stored[q].date, webpageTimestamp |-> stored[q].webpageTimestamp,
         capturedAt |-> stored[q].capturedAt] : q \in DOMAIN stored}

\* C32 (as claimed): a request to GET /history that computes its list while
\* the index is missing or empty and valid snapshots are stored returns the
\* metadata of the stored snapshots by date descending, not an empty list.
C32_EmptyIndexFallsBackToListing ==
  (/\ watch.kind = "history"
   /\ watch.clean
   /\ watch.computed
   /\ watch.index.snapshots = <<>>
   /\ DOMAIN watch.stored # {}
   /\ \A q \in DOMAIN watch.stored : ~IsNull(SafeValidateSnapshot(watch.stored[q]))) =>
    /\ response.status = 200
    /\ ListsStored(response.body.snapshots, watch.stored)
    /\ response.body.count = Len(response.body.snapshots)

\* What the first run of the wrapped function returns in a request with
\* inputs i, Null when it throws.
FirstRun(i) ==
  Assemble(ScrapeOf(i.ok1), LoadCountryMappings(store, i.mapped), i.loaded, now)

\* The cache slot of either version holds its value and the time it was
\* cached, or neither.
CachedWithCachedAt ==
  /\ IsNull(memo) \/ (DOMAIN memo = {"data", "storedAt"} /\ memo.storedAt \in 0..minute)
  /\ IF IsNull(cachedData) THEN cacheTimestamp = 0 ELSE cacheTimestamp \in 0..minute

\* The step leaves the value req.assembled, with the webpageTimestamp of the
\* page it was scraped from, in the cache of the handler over unstable_cache,
\* cached at this minute.
CachesAssembled(req) ==
  /\ memo' = [data |-> req.assembled, storedAt |-> minute]
  /\ memo'.data.webpageTimestamp = page.webpageTimestamp

\* A request to the handler with the module-level cache that finds it empty
\* fetches the page once and on success sets cachedData and cacheTimestamp.
ColdInMemory ==
  (deployed = "in-memory" /\ IsNull(cachedData)) =>
    \A i \in InMemoryInputs :
      GetLeaderboardInMemory(i.probeOk, i.ok) =>
        /\ InMemoryRequest(i.probeOk, i.ok).ran = 1
        /\ IF i.ok
             THEN /\ ~IsNull(cachedData')
                  /\ cachedData'.webpageTimestamp = page.webpageTimestamp
                  /\ cachedData'.lastUpdated = ToISOString(now)
                  /\ cacheTimestamp' = minute
             ELSE UNCHANGED <<cachedData, cacheTimestamp>>

HistoryDateWatched(date, listed, fetched) ==
  [kind |-> "history-date", date |-> date,
   clean |-> listed = "ok" /\ fetched = "ok",
   stored |-> FetchBlob(store, SnapshotPath(date))]

NextStored ==
  \/ \E transport \in Transports :
       /\ CallLoadSnapshot(ISODate(0), transport)
       /\ UNCHANGED <<hist, webVars, changes, routeVars, watch>>
  \/ \E date \in {ISODate(0), ISODate(TicksPerDay)}, listed \in {"ok", "throws"},
        fetched \in Transports :
       /\ GetHistoryDate(date, listed, fetched)
       /\ watch' = HistoryDateWatched(date, listed, fetched)
       /\ UNCHANGED hist

SpecStored == InitRead /\ [][NextStored]_vars

\* The body is a JSON object that fails HistoricalSnapshotSchema.
FailsSnapshotSchema(body) ==
  /\ ~IsNull(body)
  /\ body # Undecodable
  /\ IsNull(SafeValidateSnapshot(body))

\* C34 (as claimed): a stored snapshot object whose content fails the
\* snapshot schema is read as not found: loadSnapshot(date) returns null for
\* it, and GET /history/{date} answers 404 for its date.
C34_SchemaFailureIsNotFound ==
  /\ (/\ ~IsNull(readResult)
      /\ readResult.op = "loadSnapshot"
      /\ readResult.transport = "ok"
      /\ FailsSnapshotSchema(FetchBlob(store, SnapshotPath(ISODate(0))))) =>
       IsNull(readResult.value)
  /\ (/\ watch.kind = "history-date"
      /\ watch.clean
      /\ FailsSnapshotSchema(watch.stored)) =>
       response = HistoryNotFound

\* The entries are in strictly descending order of date: sorted, and no two
\* of the same date.
StrictlyDescending(entries) ==
  \A i, j \in 1..Len(entries) :
    i < j => LocaleCompare(entries[i].date, entries[j].date) > 0

\* C35: whenever the index object is stored, written by updateSnapshotIndex
\* or by the rebuild, its entries are sorted by date descending and no two
\* of them carry the same date; every step that writes the index leaves it so.
C35_IndexSortedNoDuplicates ==
  /\ [](IndexPath \in DOMAIN store => StrictlyDescending(store[IndexPath].snapshots))
  /\ [][(IndexPath \in DOMAIN store' /\ FetchBlob(store, IndexPath) # store'[IndexPath]) =>
          /\ \/ pc[Caller] = "putIndex" /\ store'[IndexPath] = newIndex[Caller]
             \/ rebuild.pc = "put" /\ store'[IndexPath] = rebuild.index
          /\ StrictlyDescending(store'[IndexPath].snapshots)]_vars

\* The rebuild has indexed the uploaded snapshot of an earlier day, and the
\* index update of saveSnapshot has then added today's entry before it.
C35_Witness ==
  /\ IndexPath \in DOMAIN store
  /\ Len(store[IndexPath].snapshots) = 2
  /\ store[IndexPath].snapshots[1].date = ISODate(now)
  /\ "lastUpdated" \in DOMAIN store[IndexPath]
  /\ rebuild.status = 200
  /\ pc[Caller] = "done"
  /\ outcome[Caller] = "resolved"
  /\ logs[Caller] = {}

(***************************************************************************)
(* The wrapped function of getCachedLeaderboardData over a page that may   *)
(* list one name in two rows.                                              *)
(***************************************************************************)

\* What the row loop makes of a page whose first two rows carry the same
\* name: each row passes PlayerSchema by itself and both are pushed.
RepeatedNamePage ==
  [players |-> <<Alice, [Bob EXCEPT !.name = Alice.name]>>, webpageTimestamp |-> "T2"]

\* The source page comes to list a name twice, before the first value is
\* cached.
PageRepeatsName ==
  /\ page # RepeatedNamePage
  /\ IsNull(memo)
  /\ response = Null
  /\ page' = RepeatedNamePage
  /\ UNCHANGED <<now, store, reqVars, repairVars, readVars, changes, deployed, minute, memo,
                 cachedData, cacheTimestamp, files, countryPuts, response>>

NextNames ==
  \/ NextAssembler
  \/ PageRepeatsName /\ UNCHANGED <<hist, webVars, watch>>

SpecNames == InitAssembler /\ [][NextNames]_vars

\* No two of the rows share a name.
NamesUnique(players) ==
  \A i, j \in 1..Len(players) : i < j => players[i].name # players[j].name

\* C36 (as claimed): in every stored snapshot, in every cached leaderboard
\* value and in every leaderboard value a response returns, no two player
\* rows share a name.
C36_PlayerNamesUnique ==
  /\ \A q \in SnapshotPaths(store) :
       (store[q] # Undecodable /\ "players" \in DOMAIN store[q]) =>
         NamesUnique(store[q].players)
  /\ ~IsNull(memo) => NamesUnique(memo.data.players)
  /\ (~IsNull(response) /\ response.status = 200) => NamesUnique(response.body.players)

(***************************************************************************)
(* saveSnapshot called concurrently for one date, every store operation    *)
(* succeeding: the calls interleave at their awaits, the snapshot put, the *)
(* index read and the index put.                                           *)
(***************************************************************************)
NextSameDate ==
  \/ Tick /\ ISODate(now') = ISODate(now) /\ UNCHANGED <<hist, repairVars, rest>>
  \/ \E r \in Requests, snapshot \in SnapshotInputs(now) :
       /\ ~IsNull(SafeValidateSnapshot(snapshot))
       /\ CallSaveSnapshot(r, snapshot)
       /\ UNCHANGED <<hist, repairVars, rest>>
  \/ \E r \in Requests :
       /\ PutSnapshotReturns(r)
       /\ pc'[r] = "loadIndex"
       /\ UNCHANGED <<hist, repairVars, rest>>
  \/ \E r \in Requests :
       /\ LoadIndexReturns(r)
       /\ newIndex'[r] = UpdatedIndex(LoadSnapshotIndexFetched(store),
                                      SafeValidateSnapshot(snap[r]))
       /\ UNCHANGED <<hist, repairVars, rest>>
  \/ \E r \in Requests :
       /\ PutIndexReturns(r)
       /\ IndexPutLands(r)
       /\ UNCHANGED <<hist, repairVars, rest>>

SpecSameDate == Init /\ [][NextSameDate]_vars

\* The index has an entry of the date that carries the webpageTimestamp and
\* capturedAt of the snapshot and the number of its players.
IndexMatches(index, snapshot) ==
  \E i \in 1..Len(index.snapshots) :
    /\ index.snapshots[i].date = snapshot.date
    /\ index.snapshots[i].webpageTimestamp = snapshot.webpageTimestamp
    /\ index.snapshots[i].capturedAt = snapshot.capturedAt
    /\ index.snapshots[i].playerCount = Len(snapshot.players)

C38_FailedRecomputeKeepsCache ==
  [][/\ (watch'.kind = "leaderboard" /\ watch'.failed) =>
          UNCHANGED <<memo, cachedData, cacheTimestamp>>
     /\ ~IsNull(memo) => ~IsNull(memo')
     /\ ~IsNull(cachedData) => ~IsNull(cachedData')]_vars

\* The cached value had passed its revalidation period, the request ran the
\* wrapped function twice, both runs failed, and the old entry is still in
\* the cache.
C38_Witness ==
  /\ deployed = "unstable_cache"
  /\ watch.kind = "leaderboard"
  /\ watch.failed
  /\ watch.ran = 2
  /\ ~IsNull(memo)
  /\ IsStale(memo, minute)
  /\ response = ErrorResponse

\* The timestamps of ip's log that lie within the last 60 seconds.
LoggedLately(ip) ==
  {k \in DOMAIN RequestsOf(requestLog, ip) :
     clock - RequestsOf(requestLog, ip)[k] < RATE_LIMIT_WINDOW}

====
